---- MODULE Spec2Model ----
(***************************************************************************)
(* Dreamshell backend: the entry-ingestion handlers (POST /entry and the   *)
(* server-sent-event route GET /entry/stream), the persona evolution they  *)
(* call, the entry listing, and the upstream LLM stream they forward.      *)
(*                                                                         *)
(* One request is in flight at a time; every `await` of a handler is one   *)
(* step, and everything the handler does synchronously after the awaited   *)
(* value arrives belongs to that step.  A database query or an upstream    *)
(* call either succeeds or rejects.                                        *)
(***************************************************************************)
EXTENDS Integers, Sequences, FiniteSets, TLC

\* ---------------------------------------------------------------- bounds
MaxRequests == 2        \* ingestion requests started in one behaviour
MaxChunks == 2          \* payload lines of one upstream LLM response body (StreamSpec)
MaxChunksIngest == 1    \* the same, in the specification of all routes (Spec)

\* ------------------------------------------------------ program constants
DefaultLimit == 100     \* GET /entries: req.query.limit || 100
MaxLimit == 200         \* GET /entries: Math.min(..., 200)
PoolLimit == 20         \* candidate pool: LIMIT 20
WindowLimit == 7        \* evolvePersonaForUser: LIMIT 7

Users == {"u1", "u2"}

\* An optional value is a sequence of length 0 or 1.
None == <<>>
Some(x) == <<x>>

Min(a, b) == IF a < b THEN a ELSE b
Take(s, n) == SubSeq(s, 1, Min(n, Len(s)))
Max(a, b) == IF a >= b THEN a ELSE b

\* A real number of the program (a trait, a weight, a sentiment) is kept in
\* units of 1/Scale.
Scale == 1000

\* Mutant of clamp: only the lower end is enforced.
clamp_lowOnly(x, lo, hi) == Max(lo, x)

\* function clamp(x,lo=0,hi=1){ return Math.max(lo, Math.min(hi, x)); }
clamp(x, lo, hi) == Max(lo, Min(hi, x))

\* Query-string / body parameters: present or not, and the raw value.
QueryTexts ==
  { [has |-> FALSE, v |-> ""], [has |-> TRUE, v |-> ""], [has |-> TRUE, v |-> " \t"],
    [has |-> TRUE, v |-> " hi "] }
QueryModes == { [has |-> FALSE, v |-> ""], [has |-> TRUE, v |-> "plan"] }
QueryLimits ==
  { [has |-> FALSE, v |-> 0], [has |-> TRUE, v |-> 1], [has |-> TRUE, v |-> 250] }

\* ------------------------------------------------------------ text helpers
IsSpace(c) == c \in {" ", "\t", "\n", "\r"}

RECURSIVE TrimStart(_)
TrimStart(s) ==
  IF Len(s) > 0 /\ IsSpace(SubSeq(s, 1, 1)) THEN TrimStart(SubSeq(s, 2, Len(s))) ELSE s

RECURSIVE TrimEnd(_)
TrimEnd(s) ==
  IF Len(s) > 0 /\ IsSpace(SubSeq(s, Len(s), Len(s)))
  THEN TrimEnd(SubSeq(s, 1, Len(s) - 1)) ELSE s

\* String(x ?? '').trim()
Trim(s) == TrimEnd(TrimStart(s))
TextOf(q) == Trim(IF q.has THEN q.v ELSE "")

\* String(req.query.mode ?? 'reflect')
ModeOf(q) == IF q.has THEN q.v ELSE "reflect"

\* Math.min(Number(req.query.limit || 100), 200)
LimitOf(q) == Min(IF q.has THEN q.v ELSE DefaultLimit, MaxLimit)

\* text.split(/\r?\n/): the lines of a text, "\n" or "\r\n" being the
\* separator.  SplitFrom gives the lines of s from position i on: the line up
\* to the next "\n" (without a "\r" just before it), then the lines after it.
RECURSIVE SplitFrom(_, _)
SplitFrom(s, i) ==
  LET nls == {j \in i..Len(s) : SubSeq(s, j, j) = "\n"}
  IN IF nls = {} THEN <<SubSeq(s, i, Len(s))>>
     ELSE LET j == CHOOSE k \in nls : \A l \in nls : k <= l
              e == IF j > i /\ SubSeq(s, j - 1, j - 1) = "\r" THEN j - 2 ELSE j - 1
          IN <<SubSeq(s, i, e)>> \o SplitFrom(s, j + 1)
SplitLines(s) == SplitFrom(s, 1)

\* ------------------------------------------------------------ SSE events
\* Mutant of MetaEvent: the mode reported is the default one.
MetaEvent_fixedMode(entry, p, rel, mode) ==
  [ev |-> "meta", entry |-> entry, persona |-> p, related |-> rel, mode |-> "reflect"]

\* sseSendJSON(res, 'meta', {entry, persona, related, mode})
MetaEvent(entry, p, rel, mode) ==
  [ev |-> "meta", entry |-> entry, persona |-> p, related |-> rel, mode |-> mode]
\* sseSendText(res, 'delta', text): one "data:" line per line of the text
sseSendText(text) == [ev |-> "delta", lines |-> SplitLines(text)]
\* sseSendJSON(res, 'end', {ok: true})
EndEvent == [ev |-> "end", ok |-> TRUE]
\* e.message || 'stream failed'
ErrMessage(m) == IF m = "" THEN "stream failed" ELSE m
\* sseSendJSON(res, 'error', {message})
ErrorEvent(m) == [ev |-> "error", message |-> ErrMessage(m)]

\* The local reply of the route when no API key is set (three deltas).  The
\* apostrophe, dash and arrow of the source text are written in ASCII here;
\* the line breaks, which sseSendText acts on, are the source's.
CannedReply ==
  << sseSendText("Memory isn't linear - today braided into an older thread you keep tugging.\n\n"),
     sseSendText("What would be the smallest move that still counts as momentum?\n\n"),
     sseSendText("Ritual -> Name the feeling. Name the fact. Name the next tiny step.") >>

\* What an EventSource client receives as the data of an event: its data
\* lines joined by "\n".
RECURSIVE JoinLines(_)
JoinLines(ls) ==
  IF ls = <<>> THEN ""
  ELSE IF Len(ls) = 1 THEN ls[1]
  ELSE ls[1] \o "\n" \o JoinLines(Tail(ls))
DeltaData(e) == JoinLines(e.lines)

\* ------------------------------------------------- upstream LLM response
\* The response body of the chat-completions call is a stream of bytes; it is
\* modelled as a sequence of tokens so that a network read can end anywhere
\* between two tokens.  A payload line is "data: " followed by a JSON object
\* whose choices[0].delta.content is c, by the literal [DONE], or by text that
\* is not JSON; every line is followed by a blank line.
Tok(t, c) == [t |-> t, c |-> c]
TData == Tok("data:", "")
TOpen(c) == Tok("json{", c)
TClose == Tok("}", "")
TDone == Tok("[DONE]", "")
TJunk == Tok("junk", "")
TNL == Tok("\n", "")

Contents == {"", "a", "b\r\nc"}
ChunkLine(c) == <<TData, TOpen(c), TClose, TNL, TNL>>
JunkLine == <<TData, TJunk, TNL, TNL>>
DoneLine == <<TData, TDone, TNL, TNL>>
PayloadLines == {ChunkLine(c) : c \in Contents} \cup {JunkLine}

RECURSIVE LineSeqs(_)
LineSeqs(n) ==
  IF n = 0 THEN {<<>>}
  ELSE LET shorter == LineSeqs(n - 1)
       IN shorter \cup {Append(s, l) : s \in {t \in shorter : Len(t) = n - 1}, l \in PayloadLines}

RECURSIVE Flatten(_)
Flatten(ls) == IF ls = <<>> THEN <<>> ELSE Head(ls) \o Flatten(Tail(ls))

\* The bodies the upstream may send: up to n payload lines, closed by [DONE]
\* or by the end of the stream alone.
Bodies(n) == {Flatten(ls) \o d : ls \in LineSeqs(n), d \in {<<>>, DoneLine}}

\* The longest body of Bodies(n), in tokens.
BodyLen(n) == Len(ChunkLine("")) * n + Len(DoneLine)

\* text.split('\n')
RECURSIVE SplitNL(_, _)
SplitNL(toks, cur) ==
  IF toks = <<>> THEN <<cur>>
  ELSE IF Head(toks) = TNL THEN <<cur>> \o SplitNL(Tail(toks), <<>>)
  ELSE SplitNL(Tail(toks), Append(cur, Head(toks)))

\* JSON.parse(payload) succeeds
IsJSON(payload) == Len(payload) = 2 /\ payload[1].t = "json{" /\ payload[2] = TClose

\* The body of streamLLMReply's loop over the lines of one read: the deltas
\* handed to onDelta, and whether the function returned on [DONE].
RECURSIVE ScanLines(_)
ScanLines(lines) ==
  IF lines = <<>> THEN [deltas |-> <<>>, returned |-> FALSE]
  ELSE LET line == Head(lines)
           rest == ScanLines(Tail(lines))
       IN IF line = <<>> \/ Head(line) # TData THEN rest
          ELSE LET payload == Tail(line)
               IN IF payload = <<TDone>> THEN [deltas |-> <<>>, returned |-> TRUE]
                  ELSE IF IsJSON(payload) /\ payload[1].c # ""
                       THEN [deltas |-> <<payload[1].c>> \o rest.deltas,
                             returned |-> rest.returned]
                  ELSE rest

\* ---------------------------------------------------------------- keywords
\* The string of a sequence of characters.
RECURSIVE Str(_)
Str(cs) == IF cs = <<>> THEN "" ELSE cs[1] \o Str(Tail(cs))

UpperLetters == "ABCDEFGHIJKLMNOPQRSTUVWXYZ"
LowerLetters == "abcdefghijklmnopqrstuvwxyz"
Digits == "0123456789"
CharSet(s) == {SubSeq(s, i, i) : i \in 1..Len(s)}
UpperSet == CharSet(UpperLetters)
KeptSet == CharSet(LowerLetters) \cup CharSet(Digits)

\* toLowerCase(), on one character
LowerOf ==
  [c \in UpperSet |->
     LET i == CHOOSE k \in 1..Len(UpperLetters) : SubSeq(UpperLetters, k, k) = c
     IN SubSeq(LowerLetters, i, i)]
Lower(c) == IF c \in UpperSet THEN LowerOf[c] ELSE c

\* .toLowerCase().replace(/[^a-z0-9\s]/g, ' ')
Normalize(s) ==
  [i \in 1..Len(s) |->
     LET c == Lower(SubSeq(s, i, i))
     IN IF c \in KeptSet \/ IsSpace(c) THEN c ELSE " "] \o <<>>

\* The elements of s at the indices I, in order.
Pick(s, I) ==
  [k \in 1..Cardinality(I) |-> s[CHOOSE i \in I : Cardinality({j \in I : j < i}) = k - 1]]
  \o <<>>

\* .split(/\s+/) of a normalized text: the maximal runs of non-space
\* characters, with an empty string in front when the text is empty or
\* starts with white space and one at the end when it ends with white space.
SplitWords(n) ==
  LET starts == {i \in 1..Len(n) : ~IsSpace(n[i]) /\ (i = 1 \/ IsSpace(n[i - 1]))}
      EndOf(i) == CHOOSE j \in i..Len(n) :
                    /\ \A k \in i..j : ~IsSpace(n[k])
                    /\ (j = Len(n) \/ IsSpace(n[j + 1]))
      runs == [i \in 1..Len(n) |-> IF i \in starts THEN Str(SubSeq(n, i, EndOf(i))) ELSE ""]
  IN (IF n = <<>> \/ IsSpace(n[1]) THEN <<"">> ELSE <<>>)
     \o Pick(runs, starts)
     \o (IF n # <<>> /\ IsSpace(n[Len(n)]) THEN <<"">> ELSE <<>>)

STOP ==
  {"the", "a", "an", "and", "or", "but", "if", "in", "on", "at", "for", "with", "to", "of", "is",
   "are", "be", "am", "i", "you", "he", "she", "it", "we", "they", "me", "my", "your", "our",
   "their", "this", "that"}

\* Mutant of Uniq: duplicates are kept.
Uniq_keepAll(s) == s

\* [...new Set(s)]: the first occurrence of every element, in order.
Uniq(s) == Pick(s, {i \in 1..Len(s) : \A j \in 1..(i - 1) : s[j] # s[i]})

\* .slice(0, 12)
MaxKeywords == 12

\* .filter(w => w.length > 2 && !STOP.has(w)) between the split and the Set
Qualifies(w) == Len(w) > 2 /\ w \notin STOP
extractKeywords(text) ==
  LET n == Normalize(text)
  IN Take(Uniq(SelectSeq(SplitWords(n), Qualifies)), MaxKeywords)

\* --------------------------------------------------------------- sentiment
\* text.toLowerCase(), as a sequence of characters
LowerChars(s) == [i \in 1..Len(s) |-> Lower(SubSeq(s, i, i))] \o <<>>

\* the word w stands in t at position i
At(t, i, w) ==
  /\ i + Len(w) - 1 <= Len(t)
  /\ \A k \in 1..Len(w) : t[i + k - 1] = SubSeq(w, k, k)

\* t.includes(w)
Includes(t, w) == \E i \in 1..Len(t) : At(t, i, w)

\* \w of a regular expression
IsWordChar(c) == c \in KeptSet \cup UpperSet \cup {"_"}

\* (t.match(new RegExp(`\\b${word}\\b`, 'gi')) || []).length: the occurrences
\* of the word with no word character before or after it.
Matches(t, w) ==
  Cardinality({i \in 1..Len(t) :
                 /\ At(t, i, w)
                 /\ (i = 1 \/ ~IsWordChar(t[i - 1]))
                 /\ (i + Len(w) > Len(t) \/ ~IsWordChar(t[i + Len(w)]))})

POS == {"love", "calm", "joy", "grateful", "hope", "progress", "win", "peace", "light", "trust",
        "curious"}
NEG == {"sad", "angry", "fear", "anxious", "lost", "tired", "hate", "fail", "pain", "dark",
        "stuck"}

\* naiveSentiment of the single-user version: one point per term of POS the
\* text includes, minus one per term of NEG, divided by 3 and clamped.
naiveSentiment_v1(text) ==
  LET t == LowerChars(text)
      score == Cardinality({w \in POS : Includes(t, w)}) - Cardinality({w \in NEG : Includes(t, w)})
  IN clamp((score * Scale) \div 3, -Scale, Scale)

GOAL_STATES ==
  [action |-> {"do", "start", "begin", "create", "make", "build", "work", "implement", "execute",
               "launch"},
   progress |-> {"improve", "grow", "develop", "advance", "achieve", "complete", "finish",
                 "accomplish"},
   learning |-> {"learn", "study", "practice", "understand", "master", "explore", "research",
                 "analyze"},
   skills |-> {"code", "program", "design", "write", "teach", "lead", "manage", "solve"},
   planning |-> {"plan", "organize", "structure", "prepare", "arrange", "schedule", "coordinate"},
   goals |-> {"goal", "target", "objective", "milestone", "outcome", "result", "success"},
   motivation |-> {"motivated", "determined", "focused", "committed", "dedicated", "passionate"},
   confidence |-> {"can", "will", "able", "capable", "ready", "confident", "sure", "certain"},
   challenges |-> {"challenge", "problem", "obstacle", "difficulty", "barrier", "issue"},
   growth |-> {"opportunity", "potential", "possibility", "prospect", "chance", "opening"}]

positiveStates == {"progress", "confidence", "motivation", "growth"}
negativeStates == {"challenges", "uncertainty"}

\* The sum of a function with a finite domain.
RECURSIVE Sum(_)
Sum(f) ==
  IF DOMAIN f = {} THEN 0
  ELSE LET x == CHOOSE y \in DOMAIN f : TRUE
       IN f[x] + Sum([y \in DOMAIN f \ {x} |-> f[y]])

\* scores[state] || 0, summed over the states named
StateScore(t, names) ==
  Sum([n \in names |->
         IF n \in DOMAIN GOAL_STATES THEN Sum([w \in GOAL_STATES[n] |-> Matches(t, w)]) ELSE 0])

\* analyzeGoalState(text).sentiment
naiveSentiment(text) ==
  LET t == LowerChars(text)
      posScore == StateScore(t, positiveStates)
      negScore == StateScore(t, negativeStates)
  IN clamp(((posScore - negScore) * Scale) \div 5, -Scale, Scale)

\* ------------------------------------------------------------ the database
\* A row of entries as the INSERT of an ingestion writes it: the keywords and
\* the sentiment are computed from the text before the INSERT.
EntryRow(id, uid, ts, text) ==
  [id |-> id, user_id |-> uid, ts |-> ts, text |-> text,
   keywords |-> extractKeywords(text), sentiment |-> naiveSentiment(text)]

Reverse(s) == [i \in 1..Len(s) |-> s[Len(s) + 1 - i]]
Range(s) == {s[i] : i \in DOMAIN s}

\* SELECT ... FROM entries WHERE user_id=$1 ORDER BY id DESC
EntriesOf(es, uid) == Reverse(SelectSeq(es, LAMBDA e : e.user_id = uid))
\* Mutant of RecentOf: the pool query without its user_id condition.
RecentOf_anyUser(es, uid, id) ==
  Take(Reverse(SelectSeq(es, LAMBDA e : e.id # id)), PoolLimit)

\* Mutant of RecentOf: the pool query without its id <> $2 condition.
RecentOf_withSelf(es, uid, id) ==
  Take(Reverse(SelectSeq(es, LAMBDA e : e.user_id = uid)), PoolLimit)

\* ... WHERE user_id=$1 AND id <> $2 ORDER BY id DESC LIMIT 20
RecentOf(es, uid, id) ==
  Take(Reverse(SelectSeq(es, LAMBDA e : e.user_id = uid /\ e.id # id)), PoolLimit)
\* ... WHERE user_id=$1 ORDER BY id DESC LIMIT 7
\* Mutant of WindowOf: the window query without its LIMIT.
WindowOf_all(es, uid) == EntriesOf(es, uid)

\* evolvePersonaForUser: ... WHERE user_id=$1 ORDER BY id DESC LIMIT 7
WindowOf(es, uid) == Take(EntriesOf(es, uid), WindowLimit)
\* GET /entries: ... ORDER BY id DESC LIMIT $2
ListEntries(es, uid, limit) == Take(EntriesOf(es, uid), limit)

\* The trait vector is kept as the term that computes it: the default vector
\* is the empty term, and one evolution step over a window of entries appends
\* the ids of that window.  Two vectors are equal when they were computed by
\* the same steps from the same windows.
DefaultTraits == <<>>
EvolvedTraits(tr, rows) == Append(tr, [k \in 1..Len(rows) |-> rows[k].id])

\* The best related entry: related[0]?.entry of findRelatedEntries(.., 1).
\* The ranking is left open here: any candidate of a non-empty pool may be
\* first, and an empty pool has none.
findRelatedEntries(cands) ==
  IF cands = <<>> THEN {None}
  ELSE {Some([id |-> cands[i].id, ts |-> cands[i].ts]) : i \in DOMAIN cands}

\* ------------------------------------------------------------------ state
VARIABLES
  users,      \* users table: the registered user ids
  entries,    \* entries table: the rows in insertion order (id ascending)
  persona,    \* persona table: per user, no row or one row
  clock,      \* the wall clock read by new Date()
  apiKey,     \* process.env.OPENAI_API_KEY is set
  nreq,       \* ingestion requests started so far
  pc,         \* where the handler of the request in flight is suspended
  req,        \* the request in flight: route, user, trimmed text, mode, limit
  ts,         \* handler local: const ts
  ins,        \* handler local: ins.rows[0], the inserted entry
  recent,     \* handler local: recent.rows, the candidate pool
  best,       \* handler local: related[0]?.entry
  evRecent,   \* evolvePersonaForUser local: recent.rows, the 7-entry window
  tr,         \* evolvePersonaForUser local: the evolved trait vector
  pr,         \* handler local: pr.rows[0], the persona row read back
  err,        \* the rejection that ended the handler, with the step it came from
  res,        \* the HTTP response: status, SSE events written, body, ended
  connected,  \* the client's connection is open
  llm,        \* the upstream call: requests made, the body, how much of it was read
  snap,       \* history: the user's entries and persona row when the request began
  orphans     \* history: ids of the entries whose persona evolution rejected

dbVars == <<users, entries, persona>>
locals == <<ts, ins, recent, best, evRecent, tr, pr>>
vars == <<users, entries, persona, clock, apiKey, nreq, pc, req, ts, ins, recent, best,
          evRecent, tr, pr, err, res, connected, llm, snap, orphans>>

NoReq == [route |-> "none", user |-> "", text |-> "", mode |-> "", limit |-> 0]
Res0 == [status |-> 0, sse |-> FALSE, events |-> <<>>, body |-> None, ended |-> FALSE]
Llm0 == [requests |-> 0, body |-> <<>>, pos |-> 0]
Snap0 == [entries |-> <<>>, persona |-> None]

Init ==
  /\ users = {}
  /\ entries = <<>>
  /\ persona = [u \in Users |-> None]
  /\ clock = 1
  /\ apiKey \in BOOLEAN
  /\ nreq = 0
  /\ pc = "idle"
  /\ req = NoReq
  /\ ts = 0
  /\ ins = None
  /\ recent = <<>>
  /\ best = None
  /\ evRecent = <<>>
  /\ tr = DefaultTraits
  /\ pr = None
  /\ err = None
  /\ res = Res0
  /\ connected = FALSE
  /\ llm = Llm0
  /\ snap = Snap0
  /\ orphans = {}

\* ----------------------------------------------------------- registration
\* ensurePersonaFor(pool, userId) of ./auth.js: the user gets a persona row
\* with version 1 and the default traits.
ensurePersonaFor(p, u, now) ==
  [p EXCEPT ![u] = Some([version |-> 1, traits |-> DefaultTraits, last_updated |-> now])]

\* POST /auth/register: the user row is inserted, then ensurePersonaFor is
\* awaited.  When that call rejects the user row stays and the user has no
\* persona row.
Register(u, personaOk) ==
  /\ pc = "idle"
  /\ u \notin users
  /\ users' = users \cup {u}
  /\ persona' = IF personaOk THEN ensurePersonaFor(persona, u, clock) ELSE persona
  /\ UNCHANGED <<entries, clock, apiKey, nreq, pc, req, locals, err, res, connected, llm, snap,
                 orphans>>

\* ------------------------------------------------------- a handler rejects
\* Mutant of StreamCatch: the catch block ends the response and writes nothing.
StreamCatch_silent(r, msg) == [r EXCEPT !.status = IF @ = 0 THEN 200 ELSE @, !.ended = TRUE]

\* The catch block of the stream route: one error event, then res.end().
StreamCatch(r, msg) ==
  [r EXCEPT !.status = IF @ = 0 THEN 200 ELSE @,
            !.events = Append(@, ErrorEvent(msg)),
            !.ended = TRUE]

\* A rejection inside an async handler that has no try/catch: the response is
\* never written, or the framework's error handler answers 500, depending on
\* the framework version.
Unhandled(r) == {r, [r EXCEPT !.status = 500, !.ended = TRUE]}

\* Mutant of Fail: a rejection of the persona evolution deletes the inserted row.
Fail_rollback(at, msg) ==
  /\ err' = Some([at |-> at, message |-> msg])
  /\ pc' = "done"
  /\ res' \in IF req.route = "stream" THEN {StreamCatch(res, msg)} ELSE Unhandled(res)
  /\ orphans' = IF at = "evolve" THEN orphans \cup {ins[1].id} ELSE orphans
  /\ entries' = IF at = "evolve" THEN SelectSeq(entries, LAMBDA e : e.id # ins[1].id) ELSE entries
  /\ UNCHANGED <<users, persona, clock, apiKey, nreq, req, locals, connected, llm, snap>>

\* An awaited call of the handler in flight rejects at step `at`.
Fail(at, msg) ==
  /\ err' = Some([at |-> at, message |-> msg])
  /\ pc' = "done"
  /\ res' \in IF req.route = "stream" THEN {StreamCatch(res, msg)} ELSE Unhandled(res)
  /\ orphans' = IF at = "evolve" THEN orphans \cup {ins[1].id} ELSE orphans
  /\ UNCHANGED <<dbVars, clock, apiKey, nreq, req, locals, connected, llm, snap>>

\* ------------------------------------------------------------ ingestion
HasEvent(evs, kind) == \E i \in DOMAIN evs : evs[i].ev = kind

\* A request of route `route` by the authenticated user u arrives.
Arrive(route, u, text, mode, limit) ==
  /\ pc = "idle"
  /\ u \in users
  /\ req' = [route |-> route, user |-> u, text |-> text, mode |-> mode, limit |-> limit]
  /\ snap' = [entries |-> EntriesOf(entries, u), persona |-> persona[u]]
  /\ connected' = TRUE
  /\ err' = None
  /\ llm' = Llm0
  /\ UNCHANGED <<dbVars, apiKey, ins, recent, best, evRecent, tr, pr, orphans>>

\* const ts = new Date().toISOString(), then the INSERT is issued.
StartInsert ==
  /\ ts' = clock
  /\ clock' = clock + 1
  /\ pc' = "insert"

\* POST /entry up to its first await: the text is validated first.
PostEntry(u, qt) ==
  /\ nreq < MaxRequests
  /\ nreq' = nreq + 1
  /\ Arrive("post", u, TextOf(qt), "", 0)
  /\ IF TextOf(qt) = ""
     THEN /\ res' = [Res0 EXCEPT !.status = 400, !.body = Some([error |-> "text required"]),
                                 !.ended = TRUE]
          /\ pc' = "done"
          /\ UNCHANGED <<ts, clock>>
     ELSE /\ res' = Res0
          /\ StartInsert

\* GET /entry/stream up to its first await, ensureTables().
StreamOpen(u, qt, qm) ==
  /\ nreq < MaxRequests
  /\ nreq' = nreq + 1
  /\ Arrive("stream", u, TextOf(qt), ModeOf(qm), 0)
  /\ res' = Res0
  /\ pc' = "ensure"
  /\ UNCHANGED <<ts, clock>>

\* ensureTables() settles; the stream route validates the text only then.
EnsureTables(ok) ==
  /\ pc = "ensure"
  /\ IF ~ok THEN Fail("ensure", "db")
     ELSE /\ IF req.text = ""
             THEN /\ res' = [res EXCEPT !.status = 400, !.body = Some([text |-> "text required"]),
                                        !.ended = TRUE]
                  /\ pc' = "done"
                  /\ UNCHANGED <<ts, clock>>
             ELSE /\ StartInsert
                  /\ UNCHANGED res
          /\ UNCHANGED <<dbVars, apiKey, nreq, req, ins, recent, best, evRecent, tr, pr, err,
                         connected, llm, snap, orphans>>

\* INSERT INTO entries ... RETURNING: the row gets the next serial id.
InsertEntry(ok) ==
  /\ pc = "insert"
  /\ IF ~ok THEN Fail("insert", "db")
     ELSE LET row == EntryRow(Len(entries) + 1, req.user, ts, req.text)
          IN /\ entries' = Append(entries, row)
             /\ ins' = Some(row)
             /\ pc' = "recent"
             /\ UNCHANGED <<users, persona, clock, apiKey, nreq, req, ts, recent, best,
                            evRecent, tr, pr, err, res, connected, llm, snap, orphans>>

\* The candidate pool is read; the stream route ranks it at once.
SelectRecent(ok) ==
  /\ pc = "recent"
  /\ IF ~ok THEN Fail("recent", "db")
     ELSE /\ recent' = RecentOf(entries, req.user, ins[1].id)
          /\ best' \in IF req.route = "stream" THEN findRelatedEntries(recent') ELSE {None}
          /\ pc' = "ev_recent"
          /\ UNCHANGED <<dbVars, clock, apiKey, nreq, req, ts, ins, evRecent, tr, pr, err, res,
                         connected, llm, snap, orphans>>

\* evolvePersonaForUser, first query: the user's 7 newest entries.
EvolveSelectRecent(ok) ==
  /\ pc = "ev_recent"
  /\ IF ~ok THEN Fail("evolve", "db")
     ELSE /\ evRecent' = WindowOf(entries, req.user)
          /\ pc' = "ev_read"
          /\ UNCHANGED <<dbVars, clock, apiKey, nreq, req, ts, ins, recent, best, tr, pr, err,
                         res, connected, llm, snap, orphans>>

\* evolvePersonaForUser, second query: the persona row; the traits of the row
\* (or the default ones) are then evolved over the window.
EvolveSelectPersona(ok) ==
  /\ pc = "ev_read"
  /\ IF ~ok THEN Fail("evolve", "db")
     ELSE /\ tr' = EvolvedTraits(IF persona[req.user] = None THEN DefaultTraits
                                 ELSE persona[req.user][1].traits, evRecent)
          /\ pc' = "ev_write"
          /\ UNCHANGED <<dbVars, clock, apiKey, nreq, req, ts, ins, recent, best, evRecent, pr,
                         err, res, connected, llm, snap, orphans>>

\* Mutant of UpdatePersona: the UPDATE is lost.
UpdatePersona_lost(p, uid, traits, now) == p

\* Mutant of UpdatePersona: the UPDATE is guarded by a check that the row
\* still holds the vector the new one was computed from.
UpdatePersona_checked(p, uid, traits, now) ==
  IF p[uid] = None \/ p[uid][1].traits # SubSeq(traits, 1, Len(traits) - 1) THEN p
  ELSE [p EXCEPT ![uid] = Some([p[uid][1] EXCEPT !.traits = traits, !.last_updated = now])]

\* UPDATE persona SET traits=$2, last_updated=$3 WHERE user_id=$1: the row of
\* the user, when there is one, is rewritten; version is left as it is.
UpdatePersona(p, uid, traits, now) ==
  IF p[uid] = None THEN p
  ELSE [p EXCEPT ![uid] = Some([p[uid][1] EXCEPT !.traits = traits, !.last_updated = now])]

\* evolvePersonaForUser, third query.
EvolveUpdate(ok) ==
  /\ pc = "ev_write"
  /\ IF ~ok THEN Fail("evolve", "db")
     ELSE /\ persona' = UpdatePersona(persona, req.user, tr, clock)
          /\ clock' = clock + 1
          /\ pc' = "persona"
          /\ UNCHANGED <<users, entries, apiKey, nreq, req, locals, err, res, connected, llm,
                         snap, orphans>>

\* ----------------------------------------------------- reply and streaming
\* sseInit, then the meta event.
SendMeta(r, m) == [r EXCEPT !.status = 200, !.sse = TRUE, !.events = Append(@, m)]

\* Mutant of LocalReply: the local reply is closed without its end event.
LocalReply_noEnd(r) == [r EXCEPT !.events = @ \o CannedReply, !.ended = TRUE]

\* No API key: the three canned deltas, the end event, res.end().
LocalReply(r) == [r EXCEPT !.events = @ \o CannedReply \o <<EndEvent>>, !.ended = TRUE]

\* Mutant of StreamEnd: the end event is written and the response is left open.
StreamEnd_open(r) == [r EXCEPT !.events = Append(@, EndEvent)]

\* sseSendJSON(res, 'end', {ok: true}); res.end()
StreamEnd(r) == [r EXCEPT !.events = Append(@, EndEvent), !.ended = TRUE]

\* onDelta for each delta of one read, in order.
RECURSIVE SendDeltas(_, _)
SendDeltas(evs, ds) ==
  IF ds = <<>> THEN evs ELSE SendDeltas(Append(evs, sseSendText(Head(ds))), Tail(ds))

\* The persona row is read back.  POST /entry answers with the entry and the
\* row.  The stream route sends meta, and then either the local reply (no API
\* key), or reads pr.rows[0].traits (a TypeError when there is no row, caught by
\* the route's catch) and calls the upstream.
SelectPersona(ok) ==
  /\ pc = "persona"
  /\ IF ~ok THEN Fail("persona", "db")
     ELSE /\ pr' = persona[req.user]
          /\ IF req.route = "post"
             THEN /\ res' = [res EXCEPT !.status = 200, !.ended = TRUE,
                                        !.body = Some([entry |-> ins[1], persona |-> pr'])]
                  /\ pc' = "done"
                  /\ UNCHANGED <<err, llm>>
             ELSE LET sent == SendMeta(res, MetaEvent(ins[1], pr', best, req.mode))
                  IN IF ~apiKey
                     THEN /\ res' = LocalReply(sent)
                          /\ pc' = "done"
                          /\ UNCHANGED <<err, llm>>
                     ELSE IF pr' = None
                     THEN /\ res' = StreamCatch(sent, "Cannot read properties of undefined")
                          /\ err' = Some([at |-> "traits",
                                          message |-> "Cannot read properties of undefined"])
                          /\ pc' = "done"
                          /\ UNCHANGED llm
                     ELSE /\ res' = sent
                          /\ llm' = [llm EXCEPT !.requests = @ + 1]
                          /\ pc' = "fetch"
                          /\ UNCHANGED err
          /\ UNCHANGED <<dbVars, clock, apiKey, nreq, req, ts, ins, recent, best, evRecent, tr,
                         connected, snap, orphans>>

\* The fetch of streamLLMReply settles: it rejects (network), answers with a
\* status that is not OK, or answers OK with a body to read.
LLMFetch(outcome, n) ==
  /\ pc = "fetch"
  /\ CASE outcome = "reject" -> \E m \in {"fetch failed", ""} : Fail("fetch", m)
       [] outcome = "status" -> Fail("http", "OpenAI HTTP 500")
       [] outcome = "ok" ->
            /\ \E b \in Bodies(n) : llm' = [llm EXCEPT !.body = b, !.pos = 0]
            /\ pc' = "read"
            /\ UNCHANGED <<dbVars, clock, apiKey, nreq, req, locals, err, res, connected,
                           snap, orphans>>

\* One reader.read() of streamLLMReply settles with the next k tokens of the
\* body; the lines of that text alone are scanned.
LLMReadValue(k) ==
  /\ pc = "read"
  /\ k \in 1..(Len(llm.body) - llm.pos)
  /\ LET text == SubSeq(llm.body, llm.pos + 1, llm.pos + k)
         scan == ScanLines(SplitNL(text, <<>>))
         sent == [res EXCEPT !.events = SendDeltas(@, scan.deltas)]
     IN /\ llm' = [llm EXCEPT !.pos = @ + k]
        /\ res' = IF scan.returned THEN StreamEnd(sent) ELSE sent
        /\ pc' = IF scan.returned THEN "done" ELSE "read"
  /\ UNCHANGED <<dbVars, clock, apiKey, nreq, req, locals, err, connected, snap, orphans>>

\* reader.read() settles with done: the loop breaks and the route ends the
\* stream.
LLMReadDone ==
  /\ pc = "read"
  /\ llm.pos = Len(llm.body)
  /\ res' = StreamEnd(res)
  /\ pc' = "done"
  /\ UNCHANGED <<dbVars, clock, apiKey, nreq, req, locals, err, connected, llm, snap, orphans>>

\* reader.read() rejects: the upstream connection broke.
LLMReadFail ==
  /\ pc = "read"
  /\ Fail("read", "terminated")

\* The client closes its connection while the stream route is at work.  The
\* route registers no close listener and passes no abort signal upstream.
ClientDisconnect ==
  /\ req.route = "stream"
  /\ pc \notin {"idle", "done"}
  /\ connected
  /\ connected' = FALSE
  /\ UNCHANGED <<dbVars, clock, apiKey, nreq, pc, req, locals, err, res, llm, snap, orphans>>

\* ---------------------------------------------------------------- listing
\* GET /entries up to its await.
EntriesOpen(u, ql) ==
  /\ Arrive("entries", u, "", "", LimitOf(ql))
  /\ res' = Res0
  /\ pc' = "list"
  /\ UNCHANGED <<ts, clock, nreq>>

\* The listing query settles.
EntriesQuery(ok) ==
  /\ pc = "list"
  /\ IF ~ok THEN Fail("list", "db")
     ELSE /\ res' = [res EXCEPT !.status = 200, !.ended = TRUE,
                                !.body = ListEntries(entries, req.user, req.limit)]
          /\ pc' = "done"
          /\ UNCHANGED <<dbVars, clock, apiKey, nreq, req, locals, err, connected, llm, snap,
                         orphans>>

\* The handler is over; the next request can be taken.
Finish ==
  /\ pc = "done"
  /\ pc' = "idle"
  /\ req' = NoReq
  /\ ts' = 0
  /\ ins' = None
  /\ recent' = <<>>
  /\ best' = None
  /\ evRecent' = <<>>
  /\ tr' = DefaultTraits
  /\ pr' = None
  /\ err' = None
  /\ res' = Res0
  /\ connected' = FALSE
  /\ llm' = Llm0
  /\ snap' = Snap0
  /\ UNCHANGED <<dbVars, clock, apiKey, nreq, orphans>>

Next ==
  \/ \E u \in Users, ok \in BOOLEAN : Register(u, ok)
  \/ \E u \in Users, qt \in QueryTexts : PostEntry(u, qt)
  \/ \E u \in Users, qt \in QueryTexts, qm \in QueryModes : StreamOpen(u, qt, qm)
  \/ \E ok \in BOOLEAN : EnsureTables(ok)
  \/ \E ok \in BOOLEAN : InsertEntry(ok)
  \/ \E ok \in BOOLEAN : SelectRecent(ok)
  \/ \E ok \in BOOLEAN : EvolveSelectRecent(ok)
  \/ \E ok \in BOOLEAN : EvolveSelectPersona(ok)
  \/ \E ok \in BOOLEAN : EvolveUpdate(ok)
  \/ \E ok \in BOOLEAN : SelectPersona(ok)
  \/ \E o \in {"reject", "status", "ok"} : LLMFetch(o, MaxChunksIngest)
  \/ \E k \in 1..BodyLen(MaxChunksIngest) : LLMReadValue(k)
  \/ LLMReadDone
  \/ LLMReadFail
  \/ ClientDisconnect
  \/ \E u \in Users, ql \in QueryLimits : EntriesOpen(u, ql)
  \/ \E ok \in BOOLEAN : EntriesQuery(ok)
  \/ Finish

Spec == Init /\ [][Next]_vars

\* -------------------------------------------- one stream request, in detail
\* The stream route alone, from the states a registered user can be in when
\* the request arrives: no entry yet (with or without a persona row), or one
\* entry already ingested.  The upstream body has up to MaxChunks lines.
StreamInit ==
  /\ users = {"u1"}
  /\ \/ /\ entries = <<>>
        /\ persona \in {[u \in Users |-> None],
                        [u \in Users |-> IF u = "u1"
                           THEN Some([version |-> 1, traits |-> DefaultTraits, last_updated |-> 1])
                           ELSE None]}
        /\ clock = 1
     \/ /\ entries = <<EntryRow(1, "u1", 1, "hi")>>
        /\ persona = [u \in Users |-> IF u = "u1"
                        THEN Some([version |-> 1, traits |-> <<<<1>>>>, last_updated |-> 2])
                        ELSE None]
        /\ clock = 3
  /\ apiKey \in BOOLEAN
  /\ nreq = 0
  /\ pc = "idle"
  /\ req = NoReq
  /\ ts = 0
  /\ ins = None
  /\ recent = <<>>
  /\ best = None
  /\ evRecent = <<>>
  /\ tr = DefaultTraits
  /\ pr = None
  /\ err = None
  /\ res = Res0
  /\ connected = FALSE
  /\ llm = Llm0
  /\ snap = Snap0
  /\ orphans = {}

HandlerStep ==
  \/ \E ok \in BOOLEAN : EnsureTables(ok)
  \/ \E ok \in BOOLEAN : InsertEntry(ok)
  \/ \E ok \in BOOLEAN : SelectRecent(ok)
  \/ \E ok \in BOOLEAN : EvolveSelectRecent(ok)
  \/ \E ok \in BOOLEAN : EvolveSelectPersona(ok)
  \/ \E ok \in BOOLEAN : EvolveUpdate(ok)
  \/ \E ok \in BOOLEAN : SelectPersona(ok)
  \/ \E o \in {"reject", "status", "ok"} : LLMFetch(o, MaxChunks)
  \/ \E k \in 1..BodyLen(MaxChunks) : LLMReadValue(k)
  \/ LLMReadDone
  \/ LLMReadFail

StreamNext ==
  \/ \E u \in Users, qt \in QueryTexts, qm \in QueryModes : StreamOpen(u, qt, qm)
  \/ HandlerStep
  \/ ClientDisconnect

StreamSpec == StreamInit /\ [][StreamNext]_vars

\* Every awaited call of the handler settles: the database answers or rejects,
\* and the upstream stream delivers, ends or breaks.
FairStreamSpec == StreamSpec /\ WF_vars(HandlerStep)

\* ================================================================= claims
IsStream == req.route = "stream"
Events == res.events
Last(s) == s[Len(s)]
Terminal(e) == e.ev \in {"end", "error"}
CountEv(evs, kind) == Cardinality({i \in DOMAIN evs : evs[i].ev = kind})
Terminals(evs) == CountEv(evs, "end") + CountEv(evs, "error")
\* the steps of the stream route that come before its meta event
BeforeMeta == {"ensure", "insert", "recent", "evolve", "persona"}
MetaPrecedesDeltas(evs) ==
  \A j \in DOMAIN evs : evs[j].ev = "delta" => \E i \in 1..(j - 1) : evs[i].ev = "meta"
TerminalIsLast(evs) == \A i \in DOMAIN evs : Terminal(evs[i]) => i = Len(evs)

\* C1 as stated: every stream request with non-empty text emits exactly one
\* meta, before every delta, and exactly one terminal event, written last, on
\* every path, the failures before meta included.
C1_ExactlyOneMetaOnEveryPath ==
  (IsStream /\ req.text # "" /\ pc = "done") =>
    /\ CountEv(Events, "meta") = 1
    /\ MetaPrecedesDeltas(Events)
    /\ Terminals(Events) = 1
    /\ TerminalIsLast(Events)

\* C1 amended: every stream request with non-empty text emits at most one
\* meta, which precedes every delta, and, once the handler is over, exactly one
\* terminal event, which is the last event written; meta is present exactly
\* when no step before it rejected, and a rejection before meta leaves the
\* single error event.
C1_StreamShape ==
  (IsStream /\ req.text # "") =>
    /\ CountEv(Events, "meta") <= 1
    /\ MetaPrecedesDeltas(Events)
    /\ Terminals(Events) <= 1
    /\ TerminalIsLast(Events)
    /\ pc = "done" =>
         /\ Terminals(Events) = 1
         /\ HasEvent(Events, "meta") <=> ~(err # None /\ err[1].at \in BeforeMeta)
         /\ ~HasEvent(Events, "meta") => Events = <<ErrorEvent(err[1].message)>>

\* C1 witness: a finished stream with meta, two upstream deltas and end.
C1_Witness ==
  /\ IsStream /\ pc = "done" /\ apiKey
  /\ Len(Events) = 4
  /\ Events[1].ev = "meta" /\ Events[2].ev = "delta" /\ Events[3].ev = "delta"
  /\ Events[4] = EndEvent

\* C2 as stated: once the client has disconnected after meta and before the
\* terminal event, no further chunk is read from the upstream and no further
\* event is written to the response.
C2_DisconnectAbandonsUpstream ==
  [][(IsStream /\ ~connected /\ HasEvent(Events, "meta") /\ pc \notin {"idle", "done"})
       => (res'.events = res.events /\ llm'.pos = llm.pos)]_vars

\* a payload line that is not JSON has been read from the upstream
JunkDelivered == \E i \in 1..llm.pos : llm.body[i] = TJunk
UpstreamFault == (err # None /\ err[1].at \in {"fetch", "http", "read"}) \/ JunkDelivered

\* C3 as stated: after meta, an upstream failure (network, non-OK status or a
\* malformed payload line) makes the stream emit exactly one error event and
\* close, with no end event and no second upstream request.
C3_UpstreamFaultIsError ==
  (IsStream /\ pc = "done" /\ HasEvent(Events, "meta") /\ UpstreamFault) =>
    /\ CountEv(Events, "error") = 1
    /\ Last(Events).ev = "error"
    /\ CountEv(Events, "end") = 0
    /\ llm.requests = 1
    /\ res.ended

\* the non-empty text chunks of an upstream body, in order
RECURSIVE ChunksOf(_)
ChunksOf(toks) ==
  IF toks = <<>> THEN <<>>
  ELSE IF Head(toks).t = "json{" /\ Head(toks).c # ""
       THEN <<Head(toks).c>> \o ChunksOf(Tail(toks))
       ELSE ChunksOf(Tail(toks))
\* the data of the delta events, in order, as the client receives them
RECURSIVE DeltaTexts(_)
DeltaTexts(evs) ==
  IF evs = <<>> THEN <<>>
  ELSE IF Head(evs).ev = "delta" THEN <<DeltaData(Head(evs))>> \o DeltaTexts(Tail(evs))
       ELSE DeltaTexts(Tail(evs))

\* no chunk of the body holds a carriage return (sseSendText splits a text on
\* "\r\n" as on "\n", so such a chunk reaches the client with "\n" in its place)
HasCR(c) == \E i \in 1..Len(c) : SubSeq(c, i, i) = "\r"
PlainChunks(toks) == \A i \in DOMAIN toks : ~HasCR(toks[i].c)

\* C4 as stated, on bodies whose chunks hold no carriage return: when the
\* upstream stream has completed, the delta payloads are the non-empty
\* upstream chunks, each once, in arrival order, however the body was split
\* into reads.
C4_DeltasAreTheChunks ==
  (IsStream /\ pc = "done" /\ llm.requests = 1 /\ err = None /\ Last(Events) = EndEvent
     /\ PlainChunks(llm.body)) =>
    DeltaTexts(Events) = ChunksOf(llm.body)

KeylessStream == IsStream /\ ~apiKey /\ req.text # ""
IsLocalReply(evs) ==
  /\ Len(evs) = 2 + Len(CannedReply)
  /\ evs[1].ev = "meta"
  /\ SubSeq(evs, 2, Len(evs) - 1) =
       << [ev |-> "delta", lines |-> <<"Memory isn't linear - today braided into an older thread you keep tugging.", "", "">>],
          [ev |-> "delta", lines |-> <<"What would be the smallest move that still counts as momentum?", "", "">>],
          [ev |-> "delta", lines |-> <<"Ritual -> Name the feeling. Name the fact. Name the next tiny step.">>] >>
  /\ Last(evs) = EndEvent

\* C5 as stated: with no API key every stream request with non-empty text
\* emits one meta, the canned deltas and one end, never an error event, and
\* never contacts the upstream.
C5_KeylessAlwaysLocalReply ==
  (KeylessStream /\ pc = "done") =>
    /\ IsLocalReply(Events)
    /\ CountEv(Events, "error") = 0
    /\ llm.requests = 0

\* C5 amended: with no API key a stream request with non-empty text never
\* contacts the upstream; when no step before meta rejects it emits one meta
\* echoing the mode, the same three canned deltas and one end, and closes with
\* no error event; when such a step rejects it emits the single error event.
C5_KeylessLocalReply ==
  KeylessStream =>
    /\ llm.requests = 0
    /\ pc \notin {"fetch", "read"}
    /\ pc = "done" =>
         IF err = None
         THEN /\ IsLocalReply(Events)
              /\ Events[1].mode = req.mode
              /\ CountEv(Events, "error") = 0
              /\ res.ended
         ELSE /\ err[1].at \in BeforeMeta
              /\ Events = <<ErrorEvent(err[1].message)>>

\* C5 witness: the finished local reply of a request in mode "plan".
C5_Witness ==
  /\ KeylessStream /\ pc = "done" /\ req.mode = "plan"
  /\ IsLocalReply(Events)

\* the meta event of the response, when it has one
MetaOf(evs) == evs[CHOOSE i \in DOMAIN evs : evs[i].ev = "meta"]

StreamState ==
  IF Events = <<>> THEN "OPEN"
  ELSE IF Last(Events).ev = "end" THEN "ENDED"
  ELSE IF Last(Events).ev = "error" THEN "ERRORED"
  ELSE IF HasEvent(Events, "delta") THEN "STREAMING"
  ELSE "META_SENT"
Rank(st) ==
  CASE st = "OPEN" -> 0 [] st = "META_SENT" -> 1 [] st = "STREAMING" -> 2
    [] st \in {"ENDED", "ERRORED"} -> 3

\* C7: every stream that has sent meta eventually reaches a terminal state
\* with the connection closed, given that every awaited call settles; a stream
\* whose upstream completed is ENDED with end as its last event, one that
\* failed is ERRORED with error as its last event; the state only moves
\* forward along OPEN, META_SENT, STREAMING, ENDED or ERRORED, and a terminal
\* state is never left.
C7_StreamTerminates ==
  /\ (IsStream /\ HasEvent(Events, "meta")) ~>
       (pc = "done" /\ res.ended /\ StreamState \in {"ENDED", "ERRORED"})
  /\ []((IsStream /\ HasEvent(Events, "meta") /\ pc = "done") =>
          /\ res.ended
          /\ (err = None) <=> (StreamState = "ENDED")
          /\ (err # None) <=> (StreamState = "ERRORED"))
  /\ []((IsStream /\ StreamState \in {"ENDED", "ERRORED"}) => (pc = "done" /\ res.ended))
  /\ [][IsStream =>
          /\ Rank(StreamState') >= Rank(StreamState)
          /\ (Rank(StreamState) = 3 => res' = res)]_vars

\* C7 witness: a stream that was STREAMING (a delta was forwarded) and then
\* ERRORED because the upstream connection broke.
C7_Witness ==
  /\ IsStream /\ pc = "done" /\ res.ended
  /\ err # None /\ err[1].at = "read"
  /\ HasEvent(Events, "delta") /\ StreamState = "ERRORED"

\* C8 as stated: an ingestion request whose text is missing or trims to empty
\* is answered with a 4xx status, emits no stream event, inserts no entry and
\* leaves the persona row as it was.
C8_EmptyTextRejected ==
  (req.route \in {"post", "stream"} /\ req.text = "" /\ pc = "done") =>
    /\ res.status \in 400..499
    /\ Events = <<>>
    /\ EntriesOf(entries, req.user) = snap.entries
    /\ persona[req.user] = snap.persona

\* C9 as stated: when persona evolution rejects after the insert, the request
\* still completes with a response that carries the saved entry: POST /entry
\* answers with the entry, the stream emits meta with the entry.
C9_EvolveFailureStillAnswers ==
  (pc = "done" /\ err # None /\ err[1].at = "evolve") =>
    /\ req.route = "post" =>
         /\ res.ended /\ res.status = 200
         /\ res.body # None /\ res.body[1].entry = ins[1]
    /\ req.route = "stream" =>
         /\ HasEvent(Events, "meta")
         /\ MetaOf(Events).entry = ins[1]

\* the rows of the entries whose persona evolution rejected, for one user
OrphanRows(uid) == {e \in Range(entries) : e.id \in orphans /\ e.user_id = uid}

\* C10: an entry inserted by a request whose persona evolution then rejected
\* stays a stored row and is in the listing of its user; a later GET /entries
\* that is not cut by its limit returns it; no step removes or rewrites a
\* stored entry.
C10_EntrySurvivesEvolveFailure ==
  /\ [](/\ \A id \in orphans : \E e \in Range(entries) :
             e.id = id /\ e \in Range(ListEntries(entries, e.user_id, DefaultLimit))
        /\ ins # None => ins[1] \in Range(entries)
        /\ (req.route = "entries" /\ pc = "done" /\ res.status = 200
              /\ Len(EntriesOf(entries, req.user)) <= req.limit) =>
             OrphanRows(req.user) \subseteq Range(res.body))
  /\ [][\A i \in DOMAIN entries : i \in DOMAIN entries' /\ entries'[i] = entries[i]]_vars

\* C10 witness: a listing that returned an entry whose persona evolution had
\* rejected.
C10_Witness ==
  /\ req.route = "entries" /\ pc = "done" /\ res.status = 200
  /\ OrphanRows(req.user) # {}
  /\ OrphanRows(req.user) \subseteq Range(res.body)

\* ============================================ concurrent stream ingestions
\* Two requests to GET /entry/stream served at the same time by a server that
\* has no API key: each process p is the handler of the requests of one
\* user, req[p].user.  The handler variables are functions of the process
\* here; the tables and the clock are shared.  Every await is one step of one
\* process, and the steps of the two processes interleave freely.
Procs == {1, 2}
MaxPerProc == 1         \* requests each process serves in one behaviour

ConcInit(owner) ==
  /\ users = {owner[p] : p \in Procs}
  /\ \/ /\ entries = <<>>
        /\ clock = 1
        /\ persona \in {[u \in Users |-> IF u \in users
                            THEN Some([version |-> 1, traits |-> DefaultTraits, last_updated |-> 1])
                            ELSE None]}
     \/ /\ entries = <<EntryRow(1, owner[1], 1, "hi")>>
        /\ clock = 3
        /\ persona = [u \in Users |-> IF u = owner[1]
                        THEN Some([version |-> 1, traits |-> <<<<1>>>>, last_updated |-> 2])
                        ELSE IF u \in users
                        THEN Some([version |-> 1, traits |-> DefaultTraits, last_updated |-> 1])
                        ELSE None]
  /\ apiKey = FALSE
  /\ nreq = [p \in Procs |-> 0]
  /\ pc = [p \in Procs |-> "idle"]
  /\ req = [p \in Procs |-> [NoReq EXCEPT !.user = owner[p]]]
  /\ ts = [p \in Procs |-> 0]
  /\ ins = [p \in Procs |-> None]
  /\ recent = [p \in Procs |-> <<>>]
  /\ best = [p \in Procs |-> None]
  /\ evRecent = [p \in Procs |-> <<>>]
  /\ tr = [p \in Procs |-> DefaultTraits]
  /\ pr = [p \in Procs |-> None]
  /\ err = [p \in Procs |-> None]
  /\ res = [p \in Procs |-> Res0]
  /\ connected = [p \in Procs |-> TRUE]
  /\ llm = [p \in Procs |-> Llm0]
  /\ snap = [p \in Procs |-> Snap0]
  /\ orphans = {}

\* process p moves to `to`
Goto(p, to) == pc' = [pc EXCEPT ![p] = to]

\* An awaited call of process p rejects at step `at`: the catch of the route.
ConcFail(p, at, msg) ==
  /\ err' = [err EXCEPT ![p] = Some([at |-> at, message |-> msg])]
  /\ Goto(p, "done")
  /\ res' = [res EXCEPT ![p] = StreamCatch(res[p], msg)]
  /\ orphans' = IF at = "evolve" THEN orphans \cup {ins[p][1].id} ELSE orphans
  /\ UNCHANGED <<dbVars, clock, apiKey, nreq, req, locals, connected, llm, snap>>

\* GET /entry/stream arrives at process p, with the default mode, up to await
\* ensureTables().
ConcStreamOpen(p, qt) ==
  /\ pc[p] = "idle"
  /\ nreq[p] < MaxPerProc
  /\ nreq' = [nreq EXCEPT ![p] = @ + 1]
  /\ req' = [req EXCEPT ![p] = [route |-> "stream", user |-> req[p].user, text |-> TextOf(qt),
                                mode |-> ModeOf([has |-> FALSE, v |-> ""]), limit |-> 0]]
  /\ snap' = [snap EXCEPT ![p] = [entries |-> EntriesOf(entries, req[p].user),
                                  persona |-> persona[req[p].user]]]
  /\ Goto(p, "ensure")
  /\ UNCHANGED <<dbVars, clock, apiKey, locals, err, res, connected, llm, orphans>>

\* ensureTables() settles for p; the text is validated, the INSERT is issued.
ConcEnsureTables(p, ok) ==
  /\ pc[p] = "ensure"
  /\ IF ~ok THEN ConcFail(p, "ensure", "db")
     ELSE /\ IF req[p].text = ""
             THEN /\ res' = [res EXCEPT ![p] = [@ EXCEPT !.status = 400, !.ended = TRUE,
                                                  !.body = Some([text |-> "text required"])]]
                  /\ Goto(p, "done")
                  /\ UNCHANGED <<ts, clock>>
             ELSE /\ ts' = [ts EXCEPT ![p] = clock]
                  /\ clock' = clock + 1
                  /\ Goto(p, "insert")
                  /\ UNCHANGED res
          /\ UNCHANGED <<dbVars, apiKey, nreq, req, ins, recent, best, evRecent, tr, pr, err,
                         connected, llm, snap, orphans>>

\* The INSERT of p settles.
ConcInsertEntry(p, ok) ==
  /\ pc[p] = "insert"
  /\ IF ~ok THEN ConcFail(p, "insert", "db")
     ELSE LET row == EntryRow(Len(entries) + 1, req[p].user, ts[p], req[p].text)
          IN /\ entries' = Append(entries, row)
             /\ ins' = [ins EXCEPT ![p] = Some(row)]
             /\ Goto(p, "recent")
             /\ UNCHANGED <<users, persona, clock, apiKey, nreq, req, ts, recent, best,
                            evRecent, tr, pr, err, res, connected, llm, snap, orphans>>

\* The candidate pool query of p settles; the pool is ranked.
ConcSelectRecent(p, ok) ==
  /\ pc[p] = "recent"
  /\ IF ~ok THEN ConcFail(p, "recent", "db")
     ELSE /\ recent' = [recent EXCEPT ![p] = RecentOf(entries, req[p].user, ins[p][1].id)]
          /\ \E b \in findRelatedEntries(recent'[p]) : best' = [best EXCEPT ![p] = b]
          /\ Goto(p, "ev_recent")
          /\ UNCHANGED <<dbVars, clock, apiKey, nreq, req, ts, ins, evRecent, tr, pr, err, res,
                         connected, llm, snap, orphans>>

\* evolvePersonaForUser of p, first query.
ConcEvolveSelectRecent(p, ok) ==
  /\ pc[p] = "ev_recent"
  /\ IF ~ok THEN ConcFail(p, "evolve", "db")
     ELSE /\ evRecent' = [evRecent EXCEPT ![p] = WindowOf(entries, req[p].user)]
          /\ Goto(p, "ev_read")
          /\ UNCHANGED <<dbVars, clock, apiKey, nreq, req, ts, ins, recent, best, tr, pr, err,
                         res, connected, llm, snap, orphans>>

\* evolvePersonaForUser of p, second query and the trait computation.
ConcEvolveSelectPersona(p, ok) ==
  /\ pc[p] = "ev_read"
  /\ IF ~ok THEN ConcFail(p, "evolve", "db")
     ELSE /\ tr' = [tr EXCEPT ![p] =
                      EvolvedTraits(IF persona[req[p].user] = None THEN DefaultTraits
                                    ELSE persona[req[p].user][1].traits, evRecent[p])]
          /\ Goto(p, "ev_write")
          /\ UNCHANGED <<dbVars, clock, apiKey, nreq, req, ts, ins, recent, best, evRecent, pr,
                         err, res, connected, llm, snap, orphans>>

\* evolvePersonaForUser of p, the UPDATE.
ConcEvolveUpdate(p, ok) ==
  /\ pc[p] = "ev_write"
  /\ IF ~ok THEN ConcFail(p, "evolve", "db")
     ELSE /\ persona' = UpdatePersona(persona, req[p].user, tr[p], clock)
          /\ clock' = clock + 1
          /\ Goto(p, "persona")
          /\ UNCHANGED <<users, entries, apiKey, nreq, req, locals, err, res, connected, llm,
                         snap, orphans>>

\* The persona row is read back by p; meta, the local reply, end.
ConcSelectPersona(p, ok) ==
  /\ pc[p] = "persona"
  /\ IF ~ok THEN ConcFail(p, "persona", "db")
     ELSE /\ pr' = [pr EXCEPT ![p] = persona[req[p].user]]
          /\ res' = [res EXCEPT ![p] =
                       LocalReply(SendMeta(res[p], MetaEvent(ins[p][1], pr'[p], best[p],
                                                             req[p].mode)))]
          /\ Goto(p, "done")
          /\ UNCHANGED <<dbVars, clock, apiKey, nreq, req, ts, ins, recent, best, evRecent, tr,
                         err, connected, llm, snap, orphans>>

\* The handler of p is over; p can take the next request of its user.
ConcFinish(p) ==
  /\ pc[p] = "done"
  /\ Goto(p, "idle")
  /\ req' = [req EXCEPT ![p] = [NoReq EXCEPT !.user = req[p].user]]
  /\ ts' = [ts EXCEPT ![p] = 0]
  /\ ins' = [ins EXCEPT ![p] = None]
  /\ recent' = [recent EXCEPT ![p] = <<>>]
  /\ best' = [best EXCEPT ![p] = None]
  /\ evRecent' = [evRecent EXCEPT ![p] = <<>>]
  /\ tr' = [tr EXCEPT ![p] = DefaultTraits]
  /\ pr' = [pr EXCEPT ![p] = None]
  /\ err' = [err EXCEPT ![p] = None]
  /\ res' = [res EXCEPT ![p] = Res0]
  /\ snap' = [snap EXCEPT ![p] = Snap0]
  /\ UNCHANGED <<dbVars, clock, apiKey, nreq, connected, llm, orphans>>

ConcNext ==
  \/ \E p \in Procs, qt \in QueryTexts : ConcStreamOpen(p, qt)
  \/ \E p \in Procs, ok \in BOOLEAN : ConcEnsureTables(p, ok)
  \/ \E p \in Procs, ok \in BOOLEAN : ConcInsertEntry(p, ok)
  \/ \E p \in Procs, ok \in BOOLEAN : ConcSelectRecent(p, ok)
  \/ \E p \in Procs, ok \in BOOLEAN : ConcEvolveSelectRecent(p, ok)
  \/ \E p \in Procs, ok \in BOOLEAN : ConcEvolveSelectPersona(p, ok)
  \/ \E p \in Procs, ok \in BOOLEAN : ConcEvolveUpdate(p, ok)
  \/ \E p \in Procs, ok \in BOOLEAN : ConcSelectPersona(p, ok)
  \/ \E p \in Procs : ConcFinish(p)

\* the two processes serve different users
IsoInit == ConcInit([p \in Procs |-> IF p = 1 THEN "u1" ELSE "u2"])
IsoSpec == IsoInit /\ [][ConcNext]_vars

\* the two processes serve the same user
RaceInit == ConcInit([p \in Procs |-> "u1"])
RaceSpec == RaceInit /\ [][ConcNext]_vars

\* ------------------------------------------------- claims on concurrency
\* How far the request of process p has come: the number of awaits settled.
Stage(p) ==
  IF pc[p] = "done"
  THEN IF err[p] = None THEN (IF req[p].text = "" THEN 1 ELSE 8)
       ELSE CASE err[p][1].at = "ensure" -> 0 [] err[p][1].at = "insert" -> 1
              [] err[p][1].at = "recent" -> 2 [] err[p][1].at = "evolve" -> 3
              [] err[p][1].at = "persona" -> 7
  ELSE CASE pc[p] = "idle" -> 0 [] pc[p] = "ensure" -> 0 [] pc[p] = "insert" -> 1
         [] pc[p] = "recent" -> 2 [] pc[p] = "ev_recent" -> 3 [] pc[p] = "ev_read" -> 4
         [] pc[p] = "ev_write" -> 5 [] pc[p] = "persona" -> 6
OldTraits(p) == IF snap[p].persona = None THEN DefaultTraits ELSE snap[p].persona[1].traits
\* the step is taken by process q
ActorIs(q) == pc'[q] # pc[q]

\* C11: with the two processes serving different users, every value the
\* ingestion of user A reads or computes is the one A's own rows at arrival
\* give (the pool is A's prior entries, the window is the new entry followed by
\* A's prior entries, the traits are evolved from A's persona over that window,
\* meta reports A's entry, related entry and persona), whatever the other
\* process does in between; and a step of the other user's process changes
\* none of A's entries, A's persona row and A's handler values.
C11_UsersAreIsolated ==
  /\ [](\A p \in Procs :
          LET u == req[p].user
              mine == EntriesOf(entries, u)
          IN /\ \A i \in DOMAIN mine : mine[i].user_id = u
             /\ Stage(p) >= 2 =>
                  /\ ins[p] # None /\ ins[p][1].text = req[p].text /\ ins[p][1].user_id = u
                  /\ mine = <<ins[p][1]>> \o snap[p].entries
             /\ Stage(p) >= 3 =>
                  /\ recent[p] = Take(snap[p].entries, PoolLimit)
                  /\ best[p] \in findRelatedEntries(Take(snap[p].entries, PoolLimit))
             /\ Stage(p) >= 4 =>
                  evRecent[p] = Take(<<ins[p][1]>> \o snap[p].entries, WindowLimit)
             /\ Stage(p) >= 5 => tr[p] = EvolvedTraits(OldTraits(p), evRecent[p])
             /\ Stage(p) >= 6 =>
                  /\ (persona[u] = None) <=> (snap[p].persona = None)
                  /\ persona[u] # None => persona[u][1].traits = tr[p]
             /\ Stage(p) = 8 =>
                  /\ MetaOf(res[p].events).entry = ins[p][1]
                  /\ MetaOf(res[p].events).related = best[p]
                  /\ MetaOf(res[p].events).persona = persona[u])
  /\ [][\A p, q \in Procs :
          (q # p /\ ActorIs(q)) =>
            /\ EntriesOf(entries', req[p].user) = EntriesOf(entries, req[p].user)
            /\ persona'[req[p].user] = persona[req[p].user]
            /\ <<pc[p], req[p], ts[p], ins[p], recent[p], best[p], evRecent[p], tr[p], pr[p],
                 err[p], res[p], snap[p]>>' =
               <<pc[p], req[p], ts[p], ins[p], recent[p], best[p], evRecent[p], tr[p], pr[p],
                 err[p], res[p], snap[p]>>]_vars

\* C11 witness: both ingestions sent meta, the first user has a prior entry,
\* and the steps interleaved: process 1 inserted first and updated its persona
\* last.
C11_Witness ==
  /\ req[1].user # req[2].user
  /\ Stage(1) = 8 /\ Stage(2) = 8
  /\ snap[1].entries # <<>>
  /\ ins[1][1].id < ins[2][1].id
  /\ persona[req[1].user][1].last_updated > persona[req[2].user][1].last_updated

\* ------------------------------------------------ claims on the persona
\* an ingestion request that went through without a rejection
IngestionSucceeded ==
  /\ req.route \in {"post", "stream"} /\ req.text # ""
  /\ pc = "done" /\ err = None
\* the persona the response reports
ResponsePersona ==
  IF req.route = "post" THEN res.body[1].persona ELSE MetaOf(Events).persona

\* C12 as stated: after every successful ingestion the stored persona row of
\* the user holds the trait vector evolved in this request, from the default
\* vector when the user had no row (upsert), and the persona in the response is
\* never absent.
C12_PersonaUpserted ==
  IngestionSucceeded =>
    /\ persona[req.user] # None
    /\ persona[req.user][1].traits =
         EvolvedTraits(IF snap.persona = None THEN DefaultTraits ELSE snap.persona[1].traits,
                       WindowOf(entries, req.user))
    /\ ResponsePersona # None

\* ------------------------------------------ claims on the related entry
\* the related entry the response reports: the body of POST /entry has the
\* members entry and persona only
ResponseRelated == IF req.route = "post" THEN None ELSE MetaOf(Events).related

\* C13 as stated: every successful ingestion, on either route, reports a
\* related entry exactly when the user had at least one entry before, and with
\* one prior entry that entry is the one reported.
C13_RelatedIffPriorEntry ==
  IngestionSucceeded =>
    /\ (ResponseRelated # None) <=> (snap.entries # <<>>)
    /\ Len(snap.entries) = 1 =>
         /\ ResponseRelated # None
         /\ ResponseRelated[1].id = snap.entries[1].id

\* ------------------------------------------- the candidate pool at its limit
\* The keyless stream route over a history long enough for LIMIT 20 to cut
\* the pool: up to MaxPrior entries are stored when the first request arrives,
\* all of user u1 or alternating between the two users.
MaxPrior == 22

PoolInit ==
  /\ users = Users
  /\ \E n \in 0..MaxPrior, mixed \in BOOLEAN :
       /\ entries = [i \in 1..n |->
                       EntryRow(i, IF mixed /\ i % 2 = 0 THEN "u2" ELSE "u1", i, "hi")]
       /\ clock = n + 1
  /\ persona = [u \in Users |->
                  Some([version |-> 1, traits |-> DefaultTraits, last_updated |-> 0])]
  /\ apiKey = FALSE
  /\ nreq = 0
  /\ pc = "idle"
  /\ req = NoReq
  /\ ts = 0
  /\ ins = None
  /\ recent = <<>>
  /\ best = None
  /\ evRecent = <<>>
  /\ tr = DefaultTraits
  /\ pr = None
  /\ err = None
  /\ res = Res0
  /\ connected = FALSE
  /\ llm = Llm0
  /\ snap = Snap0
  /\ orphans = {}

PoolNext ==
  \/ \E u \in Users, qt \in QueryTexts, qm \in QueryModes : StreamOpen(u, qt, qm)
  \/ \E ok \in BOOLEAN : EnsureTables(ok)
  \/ \E ok \in BOOLEAN : InsertEntry(ok)
  \/ \E ok \in BOOLEAN : SelectRecent(ok)
  \/ \E ok \in BOOLEAN : EvolveSelectRecent(ok)
  \/ \E ok \in BOOLEAN : EvolveSelectPersona(ok)
  \/ \E ok \in BOOLEAN : EvolveUpdate(ok)
  \/ \E ok \in BOOLEAN : SelectPersona(ok)
  \/ Finish

PoolSpec == PoolInit /\ [][PoolNext]_vars

\* C14: the related entry of meta, when present, is a stored entry of the
\* requesting user, one of that user's 20 most recent entries that existed
\* before this request, and never the entry this request inserted.
C14_RelatedFromPool ==
  (IsStream /\ HasEvent(Events, "meta") /\ MetaOf(Events).related # None) =>
    LET r == MetaOf(Events).related[1]
        prior == snap.entries
    IN /\ \E k \in 1..Min(PoolLimit, Len(prior)) :
            /\ prior[k].id = r.id
            /\ prior[k].ts = r.ts
            /\ prior[k].user_id = req.user
       /\ \E e \in Range(entries) : e.id = r.id /\ e.user_id = req.user
       /\ r.id # ins[1].id

\* The user has more than 20 prior entries and the related entry is the
\* oldest one the pool admits.
C14_Witness ==
  /\ IsStream /\ HasEvent(Events, "meta") /\ MetaOf(Events).related # None
  /\ Len(snap.entries) > PoolLimit
  /\ MetaOf(Events).related[1].id = snap.entries[PoolLimit].id

\* ------------------------------------------------ the trait arithmetic
\* Trait values and weights are numbers in units of 1/Scale; a coefficient
\* is given in hundredths and a product is rounded down to the unit.
Pct(k, x) == (k * x) \div 100

\* Mutant of mix: the step toward the target is twice the factor.
mix_twice(a, b, t) == ((100 - 2 * t) * a + 2 * t * b) \div 100

\* function mix(a,b,t){ return a*(1-t)+b*t; }, t in hundredths
mix(a, b, t) == ((100 - t) * a + t * b) \div 100

\* Mutant of Adjust: the target is added to the old value and nothing clamps.
Adjust_drift(a, b, t) == a + Pct(t, b)

\* tr.x = clamp(mix(tr.x, target, t))
Adjust(a, b, t) == clamp(mix(a, b, t), 0, Scale)

\* The category counts of a window: every entry adds one to a category per
\* word of the category its text contains, and one to gloom when its
\* sentiment is negative.  A category counts at most MaxCount and the four
\* together at most MaxTotal.
MaxCount == 1
MaxTotal == 2
Scores ==
  {score \in [wonder : 0..MaxCount, care : 0..MaxCount, rigor : 0..MaxCount, gloom : 0..MaxCount] :
     score.wonder + score.care + score.rigor + score.gloom <= MaxTotal}

\* total = Math.max(1, score.wonder + score.care + score.rigor + score.gloom)
Total(score) == Max(1, score.wonder + score.care + score.rigor + score.gloom)

\* w = score.wonder/total, c = score.care/total, r = ..., g = ...
Weights(score) ==
  LET total == Total(score)
  IN [w |-> (score.wonder * Scale) \div total, c |-> (score.care * Scale) \div total,
      r |-> (score.rigor * Scale) \div total, g |-> (score.gloom * Scale) \div total]

\* p?.traits ?? { curiosity: 0.6, empathy: 0.7, rigor: 0.6, mystique: 0.7, challengeRate: 0.35 }
DefaultTraitValues ==
  [curiosity |-> Pct(60, Scale), empathy |-> Pct(70, Scale), rigor |-> Pct(60, Scale),
   mystique |-> Pct(70, Scale), challengeRate |-> Pct(35, Scale)]

TraitNames == {"curiosity", "empathy", "rigor", "mystique", "challengeRate"}

\* The second argument of mix in the five assignments of the version fn, for
\* the weights k.
Targets(fn, k) ==
  IF fn = "evolvePersona"
  THEN [curiosity |-> Pct(50, Scale) + Pct(50, k.w),
        empathy |-> Pct(50, Scale) + Pct(50, k.c) - Pct(30, k.g),
        rigor |-> Pct(50, Scale) + Pct(50, k.r),
        mystique |-> Pct(55, Scale) + Pct(30, k.w) + Pct(15, k.g),
        challengeRate |-> Pct(25, Scale) + Pct(40, k.w) + Pct(10, k.r) - Pct(20, k.g)]
  ELSE [curiosity |-> Pct(30, Scale) + Pct(70, k.w),
        empathy |-> Pct(60, Scale) + Pct(40, k.c) - Pct(20, k.g),
        rigor |-> Pct(70, Scale) + Pct(30, k.r),
        mystique |-> Pct(30, Scale) + Pct(20, k.w) + Pct(10, k.g),
        challengeRate |-> Pct(40, Scale) + Pct(30, k.w) + Pct(20, k.r) - Pct(10, k.g)]

\* The third argument of mix, in hundredths.
Factors(fn) ==
  IF fn = "evolvePersona"
  THEN [curiosity |-> 20, empathy |-> 25, rigor |-> 20, mystique |-> 20, challengeRate |-> 15]
  ELSE [curiosity |-> 20, empathy |-> 30, rigor |-> 25, mystique |-> 15, challengeRate |-> 20]

\* The five assignments of evolvePersonaForUser.
evolvePersonaForUser(t, score) ==
  LET k == Weights(score)
      target == Targets("evolvePersonaForUser", k)
      factor == Factors("evolvePersonaForUser")
  IN [curiosity |-> Adjust(t.curiosity, target.curiosity, factor.curiosity),
      empathy |-> Adjust(t.empathy, target.empathy, factor.empathy),
      rigor |-> Adjust(t.rigor, target.rigor, factor.rigor),
      mystique |-> Adjust(t.mystique, target.mystique, factor.mystique),
      challengeRate |-> Adjust(t.challengeRate, target.challengeRate, factor.challengeRate)]

\* The five assignments of evolvePersona, the single-user version.
evolvePersona(t, score) ==
  LET k == Weights(score)
      target == Targets("evolvePersona", k)
      factor == Factors("evolvePersona")
  IN [curiosity |-> Adjust(t.curiosity, target.curiosity, factor.curiosity),
      empathy |-> Adjust(t.empathy, target.empathy, factor.empathy),
      rigor |-> Adjust(t.rigor, target.rigor, factor.rigor),
      mystique |-> Adjust(t.mystique, target.mystique, factor.mystique),
      challengeRate |-> Adjust(t.challengeRate, target.challengeRate, factor.challengeRate)]

\* Stored vectors an ingestion can start from: the corners of the unit cube
\* and the default vector.
TraitInits ==
  {[n \in TraitNames |-> 0], [n \in TraitNames |-> Scale], DefaultTraitValues}

\* A sequence of evolutions of one persona row by one of the two versions;
\* pc names the version.  The row of u1 holds the numeric vector.
TraitInit ==
  /\ users = {"u1"}
  /\ entries = <<>>
  /\ \E t0 \in TraitInits :
       persona = [u \in Users |-> IF u = "u1"
                    THEN Some([version |-> 1, traits |-> t0, last_updated |-> 0])
                    ELSE None]
  /\ clock = 1
  /\ apiKey = FALSE
  /\ nreq = 0
  /\ pc \in {"evolvePersona", "evolvePersonaForUser"}
  /\ req = NoReq
  /\ ts = 0
  /\ ins = None
  /\ recent = <<>>
  /\ best = None
  /\ evRecent = <<>>
  /\ tr = DefaultTraits
  /\ pr = None
  /\ err = None
  /\ res = Res0
  /\ connected = FALSE
  /\ llm = Llm0
  /\ snap = Snap0
  /\ orphans = {}

\* One evolution: the stored vector is read, adjusted and written back.  pr
\* keeps the row that was read and evRecent the counts of the window.
TraitEvolve(score) ==
  /\ nreq < MaxRequests
  /\ nreq' = nreq + 1
  /\ evRecent' = <<score>>
  /\ pr' = persona["u1"]
  /\ LET p == persona["u1"][1]
         t == IF pc = "evolvePersona" THEN evolvePersona(p.traits, score)
              ELSE evolvePersonaForUser(p.traits, score)
     IN persona' = [persona EXCEPT !["u1"] = Some([p EXCEPT !.traits = t, !.last_updated = clock])]
  /\ clock' = clock + 1
  /\ UNCHANGED <<users, entries, apiKey, pc, req, ts, ins, recent, best, tr, err, res,
                 connected, llm, snap, orphans>>

TraitNext == \E score \in Scores : TraitEvolve(score)

TraitSpec == TraitInit /\ [][TraitNext]_vars

\* C15: starting from a stored vector in [0,1], after every sequence of
\* evolutions each of the five traits of the stored persona lies in [0,1],
\* whatever the category counts of the windows were.
C15_TraitsInUnitInterval ==
  \A u \in Users : persona[u] # None =>
    \A n \in TraitNames : persona[u][1].traits[n] \in 0..Scale

\* Two evolutions have run and a trait sits on the upper end of the interval.
C15_Witness ==
  /\ nreq >= 2
  /\ persona["u1"][1].traits.rigor = Scale

\* ------------------------------------------------- extractKeywords alone
\* The text is typed word by word, each word after a separator, onto an empty
\* text or onto one that already has 11 distinct keywords, a repeated word
\* and a stopword; extractKeywords is
\* then applied to it.  req.text holds the text, recent the keywords.
MaxWords == 3
TypedWords == {"The", "Sky", "sky!", "is", "x9z", "don't"}
Separators == {" ", "\n\t"}
LongText == "alpha beta the alpha gamma delta kappa lambda sigma omega theta zeta iota"

KwInit ==
  /\ users = {}
  /\ entries = <<>>
  /\ persona = [u \in Users |-> None]
  /\ clock = 1
  /\ apiKey = FALSE
  /\ nreq = 0
  /\ pc = "idle"
  /\ req \in {[NoReq EXCEPT !.text = t] : t \in {"", LongText}}
  /\ ts = 0
  /\ ins = None
  /\ recent = <<>>
  /\ best = None
  /\ evRecent = <<>>
  /\ tr = DefaultTraits
  /\ pr = None
  /\ err = None
  /\ res = Res0
  /\ connected = FALSE
  /\ llm = Llm0
  /\ snap = Snap0
  /\ orphans = {}

KwType(sep, w) ==
  /\ pc = "idle"
  /\ nreq < MaxWords
  /\ nreq' = nreq + 1
  /\ req' = [req EXCEPT !.text = req.text \o sep \o w]
  /\ UNCHANGED <<dbVars, clock, apiKey, pc, ts, ins, recent, best, evRecent, tr, pr, err, res,
                 connected, llm, snap, orphans>>

\* const keywords = extractKeywords(text)
KwExtract ==
  /\ pc = "idle"
  /\ recent' = extractKeywords(req.text)
  /\ pc' = "done"
  /\ UNCHANGED <<dbVars, clock, apiKey, nreq, req, ts, ins, best, evRecent, tr, pr, err, res,
                 connected, llm, snap, orphans>>

KwNext ==
  \/ \E sep \in Separators, w \in TypedWords : KwType(sep, w)
  \/ KwExtract

KwSpec == KwInit /\ [][KwNext]_vars

\* The words of a normalized text that qualify as keywords, and the place
\* of the first occurrence of a word.
QualifyingOf(W) == {W[i] : i \in {j \in DOMAIN W : Qualifies(W[j])}}
FirstAt(W, w) == CHOOSE i \in DOMAIN W : W[i] = w /\ \A j \in 1..(i - 1) : W[j] # w

\* C16: the keywords of a text are at most 12, lowercase, free of stopwords,
\* longer than 2, distinct, and they are the first qualifying words of the
\* normalized text in the order of their first occurrence; a text without a
\* qualifying word has none.
C16_KeywordsWellFormed ==
  pc = "done" =>
    LET W == SplitWords(Normalize(req.text))
        Q == QualifyingOf(W)
        at == [w \in Q |-> FirstAt(W, w)]
    IN /\ Len(recent) <= 12
       /\ \A k \in DOMAIN recent :
            /\ \A i \in 1..Len(recent[k]) : SubSeq(recent[k], i, i) \notin UpperSet
            /\ recent[k] \notin STOP
            /\ Len(recent[k]) > 2
            /\ recent[k] \in Q
       /\ \A k, l \in DOMAIN recent : k < l => at[recent[k]] < at[recent[l]]
       /\ \A w \in Q \ Range(recent) :
            Len(recent) = 12 /\ \A k \in DOMAIN recent : at[recent[k]] < at[w]
       /\ Q = {} => recent = <<>>

\* The text has more than 12 distinct qualifying words, a repeated word, a
\* stopword and an upper-case letter, and 12 keywords came out.
C16_Witness ==
  /\ pc = "done"
  /\ Len(recent) = 12
  /\ LET W == SplitWords(Normalize(req.text))
     IN /\ Cardinality(QualifyingOf(W)) > 12
        /\ \E i, j \in DOMAIN W : i < j /\ W[i] = W[j] /\ Qualifies(W[i])
        /\ \E i \in DOMAIN W : W[i] \in STOP
  /\ \E i \in 1..Len(req.text) : SubSeq(req.text, i, i) \in UpperSet

\* -------------------------------------------------- the sentiment alone
\* The text is typed word by word onto an empty text or onto one with five
\* terms of one polarity, and one of the two sentiment functions is applied;
\* pc names the function and ins holds the text with its score.
SentWords == {"improve", "Can", "problem", "sky", "improved", "hope", "sad", "issue,"}
SentTexts ==
  {"", "improve grow develop advance achieve", "challenge problem obstacle difficulty barrier",
   "love calm joy", "sad angry fear"}

SentInit ==
  /\ users = {}
  /\ entries = <<>>
  /\ persona = [u \in Users |-> None]
  /\ clock = 1
  /\ apiKey = FALSE
  /\ nreq = 0
  /\ pc = "idle"
  /\ req \in {[NoReq EXCEPT !.text = t] : t \in SentTexts}
  /\ ts = 0
  /\ ins = None
  /\ recent = <<>>
  /\ best = None
  /\ evRecent = <<>>
  /\ tr = DefaultTraits
  /\ pr = None
  /\ err = None
  /\ res = Res0
  /\ connected = FALSE
  /\ llm = Llm0
  /\ snap = Snap0
  /\ orphans = {}

\* const sentiment = naiveSentiment(text)
SentScore(fn) ==
  /\ pc = "idle"
  /\ ins' = Some([text |-> req.text,
                  sentiment |-> IF fn = "naiveSentiment_v1" THEN naiveSentiment_v1(req.text)
                                ELSE naiveSentiment(req.text)])
  /\ pc' = fn
  /\ UNCHANGED <<dbVars, clock, apiKey, nreq, req, ts, recent, best, evRecent, tr, pr, err, res,
                 connected, llm, snap, orphans>>

SentNext ==
  \/ \E w \in SentWords : KwType(" ", w)
  \/ \E fn \in {"naiveSentiment_v1", "naiveSentiment"} : SentScore(fn)

SentSpec == SentInit /\ [][SentNext]_vars

\* The terms of each polarity, for the function named.
PositiveSet(fn) ==
  IF fn = "naiveSentiment_v1" THEN POS
  ELSE UNION {GOAL_STATES[n] : n \in positiveStates \cap DOMAIN GOAL_STATES}
NegativeSet(fn) ==
  IF fn = "naiveSentiment_v1" THEN NEG
  ELSE UNION {GOAL_STATES[n] : n \in negativeStates \cap DOMAIN GOAL_STATES}
\* The words of a text: its lower-cased runs of non-space characters.
WordsOf(text) == Range(SplitWords(LowerChars(text))) \ {""}

\* C17: the sentiment of every text lies in [-1, 1]; a text made of terms of
\* the positive set only scores above 0, a text made of terms of the negative
\* set only scores below 0, and the empty text scores 0.
C17_SentimentRangeAndSign ==
  pc \in {"naiveSentiment_v1", "naiveSentiment"} =>
    LET v == ins[1].sentiment
        W == WordsOf(req.text)
    IN /\ v \in (-Scale)..Scale
       /\ (W # {} /\ W \subseteq PositiveSet(pc)) => v > 0
       /\ (W # {} /\ W \subseteq NegativeSet(pc)) => v < 0
       /\ req.text = "" => v = 0

\* A text of six positive terms has been scored by analyzeGoalState: the raw
\* score exceeds 5 and the result is 1.
C17_Witness ==
  /\ pc = "naiveSentiment"
  /\ WordsOf(req.text) \subseteq PositiveSet(pc)
  /\ Len(SplitWords(LowerChars(req.text))) >= 6
  /\ ins[1].sentiment = Scale

\* ----------------------------------------- claims on the persona version
\* C18 as stated: after a successful ingestion of a user who has a persona
\* row, the row's last_updated is the time of this evolution (later than the
\* request's entry timestamp and than the previous value) and its version is
\* greater than before the request.
C18_VersionAndTimestampUpdated ==
  (IngestionSucceeded /\ snap.persona # None) =>
    /\ persona[req.user] # None
    /\ persona[req.user][1].last_updated > snap.persona[1].last_updated
    /\ persona[req.user][1].last_updated > ins[1].ts
    /\ persona[req.user][1].version > snap.persona[1].version

\* --------------------------------------- the same ingestion in two modes
\* A stream ingestion runs; once its meta has been sent and the handler is
\* over, the stored state is put back to what it was when the request
\* arrived (clock included) and the same user sends the same text in the
\* other mode.  snap.first keeps what the first ingestion stored and sent.
ModeTexts ==
  { [has |-> TRUE, v |-> " hi "],
    [has |-> TRUE, v |-> "Can we improve the plan, or is it a problem?"] }

ModeReplay(qm) ==
  /\ pc = "done"
  /\ nreq < MaxRequests
  /\ "first" \notin DOMAIN snap
  /\ HasEvent(res.events, "meta")
  /\ ModeOf(qm) # req.mode
  /\ snap' = [entries |-> snap.entries, persona |-> snap.persona,
              first |-> [entries |-> entries, persona |-> persona, events |-> res.events]]
  /\ entries' = Reverse(snap.entries)
  /\ persona' = [persona EXCEPT ![req.user] = snap.persona]
  /\ clock' = ts
  /\ req' = [req EXCEPT !.mode = ModeOf(qm)]
  /\ nreq' = nreq + 1
  /\ pc' = "ensure"
  /\ res' = Res0
  /\ ts' = 0
  /\ ins' = None
  /\ recent' = <<>>
  /\ best' = None
  /\ evRecent' = <<>>
  /\ tr' = DefaultTraits
  /\ pr' = None
  /\ err' = None
  /\ llm' = Llm0
  /\ UNCHANGED <<users, apiKey, connected, orphans>>

\* The server has no API key: the reply is the local one, and what the mode
\* can reach is the handler up to its meta event.
ModeInit == StreamInit /\ ~apiKey

ModeNext ==
  \/ \E u \in Users, qt \in ModeTexts, qm \in QueryModes : StreamOpen(u, qt, qm)
  \/ \E ok \in BOOLEAN : EnsureTables(ok)
  \/ \E ok \in BOOLEAN : InsertEntry(ok)
  \/ \E ok \in BOOLEAN : SelectRecent(ok)
  \/ \E ok \in BOOLEAN : EvolveSelectRecent(ok)
  \/ \E ok \in BOOLEAN : EvolveSelectPersona(ok)
  \/ \E ok \in BOOLEAN : EvolveUpdate(ok)
  \/ \E ok \in BOOLEAN : SelectPersona(ok)
  \/ \E qm \in QueryModes : ModeReplay(qm)

ModeSpec == ModeInit /\ [][ModeNext]_vars

\* C19: every meta event carries the mode of its request; and when the same
\* text is ingested from the same stored state in another mode, the entry has
\* the same keywords and sentiment, the related entry is the same, and the
\* persona reported and stored is the same as in the first ingestion.
C19_ModeOnlyEchoed ==
  HasEvent(Events, "meta") =>
    /\ MetaOf(Events).mode = req.mode
    /\ "first" \in DOMAIN snap =>
         LET m1 == MetaOf(snap.first.events)
             m2 == MetaOf(Events)
         IN /\ m1.mode # m2.mode
            /\ m2.entry.keywords = m1.entry.keywords
            /\ m2.entry.sentiment = m1.entry.sentiment
            /\ m2.entry.text = m1.entry.text
            /\ m2.related = m1.related
            /\ m2.persona = m1.persona
            /\ persona = snap.first.persona
            /\ entries = snap.first.entries

\* The second ingestion went through: its entry has keywords and a sentiment
\* other than 0, a related entry was found and the persona was evolved.
C19_Witness ==
  /\ "first" \in DOMAIN snap
  /\ pc = "done" /\ err = None
  /\ HasEvent(Events, "meta")
  /\ MetaOf(Events).entry.keywords # <<>>
  /\ MetaOf(Events).entry.sentiment # 0
  /\ MetaOf(Events).related # None
  /\ MetaOf(Events).persona # None
  /\ MetaOf(Events).persona # snap.persona

\* ------------------------------------- two ingestions of the same user
\* The trait vector two ingestions give when the one of process p runs to its
\* end before the one of process q starts, from the vector base and the prior
\* entries of the user.
SerialTraits(p, q, base, prior) ==
  EvolvedTraits(EvolvedTraits(base, Take(<<ins[p][1]>> \o prior, WindowLimit)),
                Take(<<ins[q][1], ins[p][1]>> \o prior, WindowLimit))

\* C20: nothing guards the UPDATE of evolvePersonaForUser.  Whenever the
\* UPDATE of a process succeeds, the row of the user takes the vector that
\* process computed, whatever the row holds at that moment (also when another
\* ingestion has rewritten it since the process read it), and the version is
\* left as it was.
C20_UpdateIsUnguarded ==
  [][\A p \in Procs :
       (pc[p] = "ev_write" /\ pc'[p] = "persona" /\ persona[req[p].user] # None) =>
         /\ persona'[req[p].user][1].traits = tr[p]
         /\ persona'[req[p].user][1].version = persona[req[p].user][1].version]_vars

\* A lost update: both ingestions of the user went through, both saw the same
\* persona row when they arrived, and the stored vector is one step away from
\* that row: it is the result of neither serial order.
C20_Witness ==
  /\ \A p \in Procs : pc[p] = "done" /\ err[p] = None /\ req[p].text # ""
  /\ snap[1].persona # None /\ snap[1].persona = snap[2].persona
  /\ LET u == req[1].user
         base == snap[1].persona[1].traits
         final == persona[u][1].traits
         prior == SelectSeq(EntriesOf(entries, u),
                            LAMBDA e : e.id \notin {ins[1][1].id, ins[2][1].id})
     IN /\ final \notin {SerialTraits(1, 2, base, prior), SerialTraits(2, 1, base, prior)}
        /\ Len(final) = Len(base) + 1

\* ------------------------------------------------- the relevance scorer
\* A number that may be NaN; v is in units of 1/Scale.
Num(v) == [nan |-> FALSE, v |-> v]
NaN == [nan |-> TRUE, v |-> 0]

\* Timestamps are whole hours.  Math.exp(-hoursDiff / (24 * 7)) in units of
\* 1/Scale, for the differences the timestamps below can have.
ExpDecay == [h \in {0, 24, 48} |-> CASE h = 0 -> 1000 [] h = 24 -> 866 [] h = 48 -> 751]
Abs(x) == IF x < 0 THEN -x ELSE x

\* calculateEntryMatch(current, candidate).  The division of keywordMatch is
\* 0/0 = NaN when both keyword sets are empty.  score is kept in units of
\* 1/(100 * Scale) so that the weights 0.5, 0.3 and 0.2 are whole numbers.
calculateEntryMatch(current, candidate) ==
  LET A == Range(current.keywords)
      B == Range(candidate.keywords)
      m == Max(Cardinality(A), Cardinality(B))
      keywordMatch == IF m = 0 THEN NaN ELSE Num((Cardinality(A \cap B) * Scale) \div m)
      sentimentMatch == Scale - Abs(current.sentiment - candidate.sentiment)
      timeRelevance == ExpDecay[Abs(current.ts - candidate.ts)]
  IN [keywordMatch |-> keywordMatch, sentimentMatch |-> sentimentMatch,
      timeRelevance |-> timeRelevance,
      score |-> IF keywordMatch.nan THEN NaN
                ELSE Num(50 * keywordMatch.v + 30 * sentimentMatch + 20 * timeRelevance)]

\* .sort((a, b) => b.match.score - a.match.score): a stable sort, descending
\* by score.  The comparator gives NaN, taken as 0, when one of the two scores
\* is NaN: with every score NaN nothing moves, and with NaN and numbers mixed
\* the comparator is not consistent and the order is left to the engine.
SortByScore(xs) ==
  LET n == Len(xs)
      nans == {i \in 1..n : xs[i].match.score.nan}
      Before(i, j) == \/ xs[i].match.score.v > xs[j].match.score.v
                      \/ xs[i].match.score.v = xs[j].match.score.v /\ i < j
  IN IF nans = 1..n THEN {xs}
     ELSE IF nans # {} THEN {[k \in 1..n |-> xs[f[k]]] : f \in Permutations(1..n)}
     ELSE {[k \in 1..n |->
              xs[CHOOSE i \in 1..n : Cardinality({j \in 1..n : Before(j, i)}) = k - 1]]}

\* findRelatedEntries(current, candidates, limit): the results it can return.
findRelatedRanked(current, candidates, limit) ==
  LET scored == [k \in 1..Len(candidates) |->
                   [entry |-> candidates[k],
                    match |-> calculateEntryMatch(current, candidates[k])]]
  IN {Take(r, limit) : r \in SortByScore(scored)}

\* recent.rows.map(r => ({id, keywords: r.keywords || [], sentiment:
\* r.sentiment || 0, ts})): the pool query selects id, ts, text and keywords,
\* so r.sentiment is undefined and the candidate's sentiment is 0.
PoolCandidate(r) == [id |-> r.id, keywords |-> r.keywords, sentiment |-> 0, ts |-> r.ts]

\* The scorer alone: ins is the current entry, recent the stored candidate
\* rows in the order they are supplied, and best the array of results.
MaxCands == 3
CandKeywords == {<<>>, <<"sky">>}
CandSentiments == {0, 200}
CandTimes == {0, 48}
StoredRows(n) ==
  {[k \in 1..n |-> [id |-> k, keywords |-> f[k][1], sentiment |-> f[k][2], ts |-> f[k][3]]] :
     f \in [1..n -> CandKeywords \X CandSentiments \X CandTimes]}

ScoreInit ==
  /\ users = {}
  /\ entries = <<>>
  /\ persona = [u \in Users |-> None]
  /\ clock = 1
  /\ apiKey = FALSE
  /\ nreq = 0
  /\ pc = "idle"
  /\ req = NoReq
  /\ ts = 24
  /\ \E kw \in {<<>>, <<"sky">>, <<"sky", "job">>}, se \in CandSentiments :
       ins = Some([keywords |-> kw, sentiment |-> se, ts |-> 24])
  /\ \E n \in 0..MaxCands : recent \in StoredRows(n)
  /\ best = None
  /\ evRecent = <<>>
  /\ tr = DefaultTraits
  /\ pr = None
  /\ err = None
  /\ res = Res0
  /\ connected = FALSE
  /\ llm = Llm0
  /\ snap = Snap0
  /\ orphans = {}

\* findRelatedEntries is called on the rows as they are, with a limit.
RankDirect(limit) ==
  /\ pc = "idle"
  /\ best' \in findRelatedRanked(ins[1], recent, limit)
  /\ nreq' = limit
  /\ pc' = "findRelatedEntries"
  /\ UNCHANGED <<dbVars, clock, apiKey, req, ts, ins, recent, evRecent, tr, pr, err, res,
                 connected, llm, snap, orphans>>

\* The call of the stream route: the mapped pool rows, limit 1.
RankPool ==
  /\ pc = "idle"
  /\ best' \in findRelatedRanked(ins[1], [k \in 1..Len(recent) |-> PoolCandidate(recent[k])], 1)
  /\ nreq' = 1
  /\ pc' = "stream"
  /\ UNCHANGED <<dbVars, clock, apiKey, req, ts, ins, recent, evRecent, tr, pr, err, res,
                 connected, llm, snap, orphans>>

ScoreNext ==
  \/ \E limit \in 0..MaxCands : RankDirect(limit)
  \/ RankPool

ScoreSpec == ScoreInit /\ [][ScoreNext]_vars

\* C21 as stated: the results are at most limit, in descending order of the
\* combined score, and of two results with the same score the one with the
\* higher timestamp comes first, in whatever order the candidates were given.
C21_SortedTiesByRecency ==
  (pc = "findRelatedEntries" /\ \A k \in DOMAIN best : ~best[k].match.score.nan) =>
    /\ Len(best) <= nreq
    /\ \A k, l \in DOMAIN best : k < l =>
         /\ best[k].match.score.v >= best[l].match.score.v
         /\ best[k].match.score.v = best[l].match.score.v => best[k].entry.ts >= best[l].entry.ts

\* C22 as stated: the keyword sub-score of every result is the size of the
\* intersection over the larger size, a number in [0,1], 0 when both keyword
\* sets are empty, and the combined score is a number.
C22_KeywordOverlapDefined ==
  pc = "findRelatedEntries" =>
    \A k \in DOMAIN best :
      LET A == Range(ins[1].keywords)
          B == Range(best[k].entry.keywords)
          km == best[k].match.keywordMatch
      IN /\ ~km.nan
         /\ km.v \in 0..Scale
         /\ (A = {} /\ B = {}) => km.v = 0
         /\ (A # {} \/ B # {}) =>
              km.v = (Cardinality(A \cap B) * Scale) \div Max(Cardinality(A), Cardinality(B))
         /\ ~best[k].match.score.nan

\* C23 as stated: in the stream route the sentiment sub-score of the result
\* is 1 minus the distance between the new entry's sentiment and the
\* sentiment stored with the candidate row.
C23_SentimentOfStoredRow ==
  pc = "stream" =>
    \A k \in DOMAIN best :
      \A r \in Range(recent) : r.id = best[k].entry.id =>
        best[k].match.sentimentMatch = Scale - Abs(ins[1].sentiment - r.sentiment)

\* ------------------------------------------ claims on one evolution step
\* C24: in one evolution step every trait moves by at most its smoothing
\* factor (times the range 1), and its new value lies between the value read
\* and the target of the step.
C24_StepBoundedByFactor ==
  pr # None =>
    LET old == pr[1].traits
        new == persona["u1"][1].traits
        k == Weights(evRecent[1])
        target == Targets(pc, k)
        factor == Factors(pc)
    IN \A n \in TraitNames :
         /\ Abs(new[n] - old[n]) <= Pct(factor[n], Scale)
         /\ Min(old[n], target[n]) <= new[n]
         /\ new[n] <= Max(old[n], target[n])

\* A trait has moved by its whole factor: rigor was 0, every counted term was
\* a rigor term, and the new rigor is 0.25.
C24_Witness ==
  /\ pr # None
  /\ pc = "evolvePersonaForUser"
  /\ pr[1].traits.rigor = 0
  /\ evRecent[1].rigor > 0
  /\ persona["u1"][1].traits.rigor = Pct(25, Scale)

\* C25: in every evolution step each weight is its category count divided by
\* the total floored at 1 and lies in [0,1], and the four weights sum to 1
\* (up to the rounding of the four divisions), also for a window in which no
\* category term occurs.
C25_WeightsSumToOne ==
  pr # None =>
    LET score == evRecent[1]
        k == Weights(score)
        total == Max(1, score.wonder + score.care + score.rigor + score.gloom)
    IN /\ k.w = (score.wonder * Scale) \div total
       /\ k.c = (score.care * Scale) \div total
       /\ k.r = (score.rigor * Scale) \div total
       /\ k.g = (score.gloom * Scale) \div total
       /\ \A x \in {k.w, k.c, k.r, k.g} : 0 <= x /\ x <= Scale
       /\ k.w + k.c + k.r + k.g \in (Scale - 3)..Scale

\* C27: for every window and vector read, the evolution of the same window
\* with one entry's sentiment changed from non-negative to negative (one more
\* in the gloom count, the other counts unchanged) has an empathy that is not
\* higher and a mystique that is not lower.
C27_NegativeSentimentShifts ==
  pr # None =>
    LET old == pr[1].traits
        score == evRecent[1]
        gloomier == [score EXCEPT !.gloom = @ + 1]
        base == IF pc = "evolvePersona" THEN evolvePersona(old, score)
                ELSE evolvePersonaForUser(old, score)
        shifted == IF pc = "evolvePersona" THEN evolvePersona(old, gloomier)
                   ELSE evolvePersonaForUser(old, gloomier)
    IN /\ shifted.empathy <= base.empathy
       /\ shifted.mystique >= base.mystique

\* ------------------------------------------------- the category counts
\* const EMOTION_WORDS of the version fn
EMOTION_WORDS(fn) ==
  IF fn = "evolvePersona"
  THEN [wonder |-> {"why", "how", "mystery", "infinite", "star", "time", "cosmos", "quantum",
                    "paradox", "entropy"},
        care |-> {"friend", "family", "love", "help", "care", "hug", "kind", "support", "listen",
                  "safe"},
        rigor |-> {"proof", "logic", "because", "define", "evidence", "theory", "model", "axiom",
                   "data", "test"},
        gloom |-> {"alone", "lost", "dark", "void", "fear", "anxious", "tired", "pain", "fail",
                   "stuck"}]
  ELSE [wonder |-> {"why", "how", "mystery", "learn", "discover", "explore", "curious",
                    "understand", "insight", "reflect"},
        care |-> {"friend", "family", "love", "help", "care", "support", "share", "connect",
                  "trust", "gratitude"},
        rigor |-> {"plan", "analyze", "decide", "solve", "build", "measure", "improve", "system",
                   "process", "goal"},
        growth |-> {"challenge", "change", "try", "better", "progress", "start", "achieve",
                    "overcome", "adapt", "grow"},
        struggle |-> {"stress", "worry", "fear", "doubt", "confused", "overwhelm", "tired",
                      "uncertain", "stuck", "anxious"}]

\* const score: any = { wonder:0, care:0, rigor:0, gloom:0 }
ScoreKeys == {"wonder", "care", "rigor", "gloom"}

\* The number of times the loops execute score[k] += 1: once per entry of
\* the window and word of category k that the lower-cased text includes.
Hits(fn, k, rows) ==
  Sum([i \in DOMAIN rows |->
         Cardinality({w \in EMOTION_WORDS(fn)[k] : Includes(LowerChars(rows[i].text), w)})])

\* The number of times score.gloom += 1 runs for (e.sentiment ?? 0) < 0.
Negatives(rows) == Cardinality({i \in DOMAIN rows : rows[i].sentiment < 0})

\* The object score after the loop over the window.  A key the object starts
\* with counts its hits, gloom also the negative entries; score[k] += 1 on a
\* key the object does not have makes that key NaN (undefined + 1).
tally(fn, rows) ==
  LET hit == {k \in DOMAIN EMOTION_WORDS(fn) : Hits(fn, k, rows) > 0}
  IN [k \in ScoreKeys \cup hit |->
        IF k \notin ScoreKeys THEN NaN
        ELSE Num((IF k \in DOMAIN EMOTION_WORDS(fn) THEN Hits(fn, k, rows) ELSE 0)
                 + (IF k = "gloom" THEN Negatives(rows) ELSE 0))]

\* The window is filled entry by entry and counted.  pc names the version;
\* an entry is stored with the sentiment that version computes for its text.
MaxWindow == 2
TallyTexts == {"hello", "Why stress", "try a plan", "lost friend", "a problem"}

TallyInit ==
  /\ users = {}
  /\ entries = <<>>
  /\ persona = [u \in Users |-> None]
  /\ clock = 1
  /\ apiKey = FALSE
  /\ nreq = 0
  /\ pc \in {"evolvePersona", "evolvePersonaForUser"}
  /\ req = NoReq
  /\ ts = 0
  /\ ins = None
  /\ recent = <<>>
  /\ best = None
  /\ evRecent = <<>>
  /\ tr = DefaultTraits
  /\ pr = None
  /\ err = None
  /\ res = Res0
  /\ connected = FALSE
  /\ llm = Llm0
  /\ snap = Snap0
  /\ orphans = {}

\* INSERT of one more entry; recent is the result of the window query
\* (ORDER BY id DESC LIMIT 7) after it.
TallyInsert(text) ==
  /\ Len(recent) < MaxWindow
  /\ LET row == [id |-> Len(recent) + 1, text |-> text,
                 sentiment |-> IF pc = "evolvePersona" THEN naiveSentiment_v1(text)
                               ELSE naiveSentiment(text)]
     IN recent' = Take(<<row>> \o recent, WindowLimit)
  /\ evRecent' = <<>>
  /\ UNCHANGED <<dbVars, clock, apiKey, nreq, pc, req, ts, ins, best, tr, pr, err, res, connected,
                 llm, snap, orphans>>

\* for (const e of recent.rows) { ... }
TallyCount ==
  /\ evRecent = <<>>
  /\ evRecent' = <<tally(pc, recent)>>
  /\ UNCHANGED <<dbVars, clock, apiKey, nreq, pc, req, ts, ins, recent, best, tr, pr, err, res,
                 connected, llm, snap, orphans>>

TallyNext ==
  \/ \E text \in TallyTexts : TallyInsert(text)
  \/ TallyCount

TallySpec == TallyInit /\ [][TallyNext]_vars

\* The key of score whose weight stands for category k.
WeightKey(k) == IF k = "struggle" THEN "gloom" ELSE k

\* C26: for every category of the evolver, the gloom/struggle category
\* included, the count that enters the weights is the number of (entry, term)
\* pairs of the window in which the entry's text contains the term, and for
\* gloom/struggle one more for each entry with negative stored sentiment.
C26_TermsRaiseTally ==
  evRecent # <<>> =>
    LET score == evRecent[1]
    IN \A k \in DOMAIN EMOTION_WORDS(pc) :
         LET key == WeightKey(k)
             n == Hits(pc, k, recent) + (IF key = "gloom" THEN Negatives(recent) ELSE 0)
         IN n > 0 => /\ key \in DOMAIN score
                     /\ ~score[key].nan
                     /\ score[key].v = n

\* ------------------------------------------- the order of one ingestion
\* Both ingestion routes, keyless, over the stored histories of PoolInit: a
\* user has up to MaxPrior entries when the request arrives.
OrderNext ==
  \/ \E u \in Users, qt \in QueryTexts : PostEntry(u, qt)
  \/ PoolNext

OrderSpec == PoolInit /\ [][OrderNext]_vars

\* C28: within one ingestion request the steps run in the order insert, pool
\* fetch with scoring, persona evolution, response or meta event: a step
\* only follows its predecessor, the entry is stored before the pool is read,
\* the persona is written only by the evolution and the response is produced
\* only after it.  The evolution reads the user's 7 newest entries, the entry
\* just inserted among them, and the evolved traits are computed from the
\* vector read and that window alone.
C28_StepsInOrder ==
  /\ [](pc \in {"recent", "ev_recent", "ev_read", "ev_write", "persona"} =>
          /\ ins # None
          /\ ins[1] = entries[Len(entries)])
  /\ [](pc \in {"ev_read", "ev_write", "persona"} =>
          LET mine == {e \in Range(entries) : e.user_id = req.user}
              window == Range(evRecent)
          IN /\ window \subseteq mine
             /\ Len(evRecent) = Min(7, Cardinality(mine))
             /\ Cardinality(window) = Len(evRecent)
             /\ ins[1] \in window
             /\ \A e \in window, f \in mine \ window : f.id < e.id)
  /\ [](pc = "persona" =>
          /\ Len(tr) > 0
          /\ tr[Len(tr)] = [k \in 1..Len(evRecent) |-> evRecent[k].id]
          /\ persona[req.user][1].traits = tr)
  /\ [][/\ pc' # pc =>
            pc' \in CASE pc = "insert" -> {"recent", "done"}
                      [] pc = "recent" -> {"ev_recent", "done"}
                      [] pc = "ev_recent" -> {"ev_read", "done"}
                      [] pc = "ev_read" -> {"ev_write", "done"}
                      [] pc = "ev_write" -> {"persona", "done"}
                      [] pc = "persona" -> {"done"}
                      [] OTHER -> {"idle", "ensure", "insert", "done"}
        /\ entries' # entries => pc = "insert"
        /\ (recent' # recent \/ best' # best) => pc \in {"recent", "done"}
        /\ evRecent' # evRecent => pc \in {"ev_recent", "done"}
        /\ persona' # persona => pc = "ev_write"
        /\ (req'.route = "post" /\ res'.status = 200 /\ res.status # 200) => pc = "persona"
        /\ (HasEvent(res'.events, "meta") /\ ~HasEvent(res.events, "meta")) => pc = "persona"]_vars

\* A request of a user with more than 7 stored entries has evolved the
\* persona and answered: the window holds 7 entries, the new one first, and
\* the oldest stored entry of the user is not in it.
C28_Witness ==
  /\ IngestionSucceeded
  /\ Len(evRecent) = 7
  /\ evRecent[1] = ins[1]
  /\ entries[1].user_id = req.user
  /\ entries[1] \notin Range(evRecent)
  /\ persona[req.user][1].traits = <<[k \in 1..7 |-> evRecent[k].id]>>

\* ------------------------------------------------------ the terminal UI
\* submitEntry of DreamshellTerminal.tsx and the event source it opens.  In
\* this specification nreq counts the submits, req[s] is the EventSource of
\* submit s, res[s] the part of the server's answer to its current request
\* that has not reached it yet, entries the rows the server has stored, and
\* snap the component's state: state.nextId and the log.
MaxSubmits == 2
Submits == 1..MaxSubmits
UiInputs == {" hi ", ""}

\* The EventSource of a submit: its url (the text of the query), readyState,
\* the number of requests it has made, and the variables shellId and createdShell its listeners close over.
\* shellAt (the position of the log line its meta listener added) and deltas
\* (the payloads its delta listener was called with) record its history.
NoEventSource ==
  [url |-> "", readyState |-> "none", requests |-> 0, shellId |-> 0, createdShell |-> FALSE, shellAt |-> 0,
   deltas |-> <<>>]

\* The payload of the k-th delta of the answer to submit s.
Payload(s, k) == <<"a", "b", "c", "d", "e", "f", "g", "h">>[2 * (s - 1) + k]

\* What one request can be answered with, as the events the EventSource
\* dispatches: the full stream, a stream that breaks with an error event after
\* meta, an error event alone (the entry may be stored by then), or no answer
\* at all.  "eof" is the end of the connection, which the EventSource reports
\* as an error event of its own unless it has been closed.
Answers(id, s) ==
  { [stored |-> TRUE,
     events |-> <<[ev |-> "meta", id |-> id], [ev |-> "delta", data |-> Payload(s, 1)],
                  [ev |-> "delta", data |-> Payload(s, 2)], [ev |-> "end"], [ev |-> "eof"]>>],
    [stored |-> TRUE,
     events |-> <<[ev |-> "meta", id |-> id], [ev |-> "delta", data |-> Payload(s, 1)],
                  [ev |-> "error"], [ev |-> "eof"]>>],
    [stored |-> TRUE, events |-> <<[ev |-> "error"], [ev |-> "eof"]>>],
    [stored |-> FALSE, events |-> <<[ev |-> "eof"]>>] }

UiInit ==
  /\ users = {}
  /\ entries = <<>>
  /\ persona = [u \in Users |-> None]
  /\ clock = 1
  /\ apiKey = FALSE
  /\ nreq = 0
  /\ pc = "idle"
  /\ req = [s \in Submits |-> NoEventSource]
  /\ ts = 0
  /\ ins = None
  /\ recent = <<>>
  /\ best = None
  /\ evRecent = <<>>
  /\ tr = DefaultTraits
  /\ pr = None
  /\ err = None
  /\ res = [s \in Submits |-> <<>>]
  /\ connected = FALSE
  /\ llm = Llm0
  /\ snap = [nextId |-> 1, entries |-> <<>>, log |-> <<>>]
  /\ orphans = {}

\* The EventSource es of submit s requests its url: the server stores at most
\* one entry for it and answers.
Request(s, es) ==
  \E a \in Answers(Len(entries) + 1, s) :
    /\ entries' = IF a.stored THEN Append(entries, [id |-> Len(entries) + 1, text |-> es.url])
                  ELSE entries
    /\ res' = [res EXCEPT ![s] = a.events]
    /\ req' = [req EXCEPT ![s] = [es EXCEPT !.requests = @ + 1, !.readyState = "open"]]

\* submitEntry up to new EventSource(url): a blank input returns at once.
submitEntry(input) ==
  /\ nreq < MaxSubmits
  /\ Trim(input) # ""
  /\ nreq' = nreq + 1
  /\ LET tempId == snap.nextId
     IN /\ snap' = [snap EXCEPT !.log = Append(@, [role |-> "user", id |-> <<"u", tempId>>,
                                                     text |-> Trim(input)])]
        /\ Request(nreq', [NoEventSource EXCEPT !.url = Trim(input), !.shellId = <<"s", tempId>>])
  /\ UNCHANGED <<users, persona, clock, apiKey, pc, ts, ins, recent, best, evRecent, tr, pr, err,
                 connected, llm, orphans>>

\* The meta listener: the first meta adds the empty shell line; the entry of
\* the event is put first in state.entries and nextId follows its id.
onMeta(st, es, e) ==
  [st EXCEPT !.log = IF es.createdShell THEN @
                     ELSE Append(@, [role |-> "shell", id |-> es.shellId, text |-> ""]),
             !.entries = <<e.id>> \o @,
             !.nextId = e.id + 1]

\* The delta listener: item.id === shellId ? {...item, text: item.text + data} : item
onDelta(st, es, e) ==
  [st EXCEPT !.log = [i \in DOMAIN @ |->
                        IF @[i].id = es.shellId THEN [@[i] EXCEPT !.text = @ \o e.data]
                        ELSE @[i]]]

\* The end and error listeners: es.close()
onClose(es) == [es EXCEPT !.readyState = "closed"]

\* The EventSource of submit s dispatches the next event of the answer to its
\* listeners.  A closed one dispatches nothing; one that is still open when
\* its connection ends requests the same URL again.
Dispatch(s) ==
  /\ req[s].readyState = "open"
  /\ res[s] # <<>>
  /\ LET e == Head(res[s])
         es == req[s]
     IN CASE e.ev = "meta" ->
               /\ snap' = onMeta(snap, es, e)
               /\ req' = [req EXCEPT ![s] = [es EXCEPT !.createdShell = TRUE,
                                                       !.shellAt = IF es.createdShell THEN @
                                                                   ELSE Len(snap.log) + 1]]
               /\ res' = [res EXCEPT ![s] = Tail(@)]
               /\ UNCHANGED entries
          [] e.ev = "delta" ->
               /\ snap' = onDelta(snap, es, e)
               /\ req' = [req EXCEPT ![s] = [es EXCEPT !.deltas = Append(@, e.data)]]
               /\ res' = [res EXCEPT ![s] = Tail(@)]
               /\ UNCHANGED entries
          [] e.ev = "end" ->
               /\ req' = [req EXCEPT ![s] = onClose(es)]
               /\ res' = [res EXCEPT ![s] = Tail(@)]
               /\ UNCHANGED <<snap, entries>>
          [] OTHER ->
               /\ IF onClose(es).readyState = "closed"
                  THEN /\ req' = [req EXCEPT ![s] = onClose(es)]
                       /\ res' = [res EXCEPT ![s] = Tail(@)]
                       /\ UNCHANGED entries
                  ELSE Request(s, onClose(es))
               /\ UNCHANGED snap
  /\ UNCHANGED <<users, persona, clock, apiKey, nreq, pc, ts, ins, recent, best, evRecent, tr, pr,
                 err, connected, llm, orphans>>

UiNext ==
  \/ \E input \in UiInputs : submitEntry(input)
  \/ \E s \in Submits : Dispatch(s)

UiSpec == UiInit /\ [][UiNext]_vars

\* item.text + data over a sequence of payloads
RECURSIVE Concat(_)
Concat(ds) == IF ds = <<>> THEN "" ELSE Head(ds) \o Concat(Tail(ds))

\* C29: every submit makes exactly one request, so the server never stores
\* more entries than there were submits; an event source is open only while
\* the end or error event of its answer is still to come; and the reply shown for a submit is
\* the concatenation, in arrival order, of the delta payloads its event
\* source received after meta.
C29_OneRequestOneReply ==
  /\ Len(entries) <= nreq
  /\ \A s \in 1..nreq :
       /\ req[s].requests = 1
       /\ req[s].readyState = "open" => res[s] # <<>>
       /\ req[s].createdShell => snap.log[req[s].shellAt].text = Concat(req[s].deltas)

\* -------------------------------------------------- the retrying apiGet
\* apiGet of the UI's api module.  In this specification nreq counts the
\* calls, req is the call's argument, pc its position, and res holds its
\* local retries, the outcomes of its fetches so far and what it settled with.
MaxCalls == 2
MaxFetches == 4
maxRetries == 3

\* What a fetch settles with: a response with a status, or a rejection.
FetchOutcomes ==
  {[kind |-> "response", status |-> st] : st \in {200, 500, 503, 504}}
    \cup {[kind |-> "reject", status |-> 0]}

\* res.ok
IsOk(o) == o.kind = "response" /\ o.status \in 200..299
\* res.status === 503 || res.status === 504
IsCold(o) == o.kind = "response" /\ o.status \in {503, 504}

Call0 == [retries |-> 0, fetches |-> <<>>, settled |-> "pending"]

GetInit ==
  /\ users = {}
  /\ entries = <<>>
  /\ persona = [u \in Users |-> None]
  /\ clock = 1
  /\ apiKey = FALSE
  /\ nreq = 0
  /\ pc = "idle"
  /\ req = NoReq
  /\ ts = 0
  /\ ins = None
  /\ recent = <<>>
  /\ best = None
  /\ evRecent = <<>>
  /\ tr = DefaultTraits
  /\ pr = None
  /\ err = None
  /\ res = Call0
  /\ connected = FALSE
  /\ llm = Llm0
  /\ snap = Snap0
  /\ orphans = {}

\* apiGet(path) is called: let retries = 0, and the loop is entered.
apiGet(path) ==
  /\ pc \in {"idle", "returned", "thrown"}
  /\ nreq < MaxCalls
  /\ nreq' = nreq + 1
  /\ req' = [NoReq EXCEPT !.route = path]
  /\ res' = Call0
  /\ pc' = "fetch"
  /\ UNCHANGED <<dbVars, clock, apiKey, ts, ins, recent, best, evRecent, tr, pr, err, connected,
                 llm, snap, orphans>>

\* Mutant of afterCold: a 503 or 504 is not counted.
afterCold_same(retries) == retries

\* retries++ of the 503/504 branch
afterCold(retries) == retries + 1

\* The fetch of one iteration settles with o.  A 503 or 504 is counted and
\* waited for; an OK response is returned; any other response is thrown into
\* the catch block, where a rejection of the fetch also lands: the error is
\* rethrown when retries is maxRetries - 1, counted and waited for otherwise.
Fetch(o) ==
  /\ pc = "fetch"
  /\ Len(res.fetches) < MaxFetches
  /\ LET r == [res EXCEPT !.fetches = Append(@, o)]
     IN IF IsCold(o)
        THEN /\ res' = [r EXCEPT !.retries = afterCold(@)]
             /\ pc' = "wait"
        ELSE IF IsOk(o)
        THEN /\ res' = [r EXCEPT !.settled = "body"]
             /\ pc' = "returned"
        ELSE IF res.retries = maxRetries - 1
        THEN /\ res' = [r EXCEPT !.settled = IF o.kind = "reject" THEN "fetch failed"
                                             ELSE "API error"]
             /\ pc' = "thrown"
        ELSE /\ res' = [r EXCEPT !.retries = @ + 1]
             /\ pc' = "wait"
  /\ UNCHANGED <<dbVars, clock, apiKey, nreq, req, ts, ins, recent, best, evRecent, tr, pr, err,
                 connected, llm, snap, orphans>>

\* The 10 second timer fires and the loop condition is tested: another
\* iteration, or throw new Error('Maximum retries reached').
Wake ==
  /\ pc = "wait"
  /\ IF res.retries < maxRetries
     THEN /\ pc' = "fetch"
          /\ UNCHANGED res
     ELSE /\ pc' = "thrown"
          /\ res' = [res EXCEPT !.settled = "Maximum retries reached"]
  /\ UNCHANGED <<dbVars, clock, apiKey, nreq, req, ts, ins, recent, best, evRecent, tr, pr, err,
                 connected, llm, snap, orphans>>

GetStep ==
  \/ \E o \in FetchOutcomes : Fetch(o)
  \/ Wake

GetNext ==
  \/ \E path \in {"/persona", "/entries?limit=100"} : apiGet(path)
  \/ GetStep

GetSpec == GetInit /\ [][GetNext]_vars

\* Every fetch settles and every timer fires.
FairGetSpec == GetSpec /\ WF_vars(GetStep)

====
